---- MODULE Spec2Model ----
(***************************************************************************)
(* SymbolTracker-MCP: the symbol registry (store, file tracker, write-     *)
(* through persistence), its initialization from the persisted file, the   *)
(* refresh orchestrator and the front-end request loop.                    *)
(***************************************************************************)
EXTENDS Naturals, Integers, Sequences, FiniteSets, TLC

(***************************************************************************)
(* Bounds of the model.                                                    *)
(***************************************************************************)
MaxSymbols == 3
MaxTime == 2
MaxLines == 2

MaxFillers == 50

(***************************************************************************)
(* JavaScript values.  A key of an object literal is either absent, or     *)
(* present with the value undefined, or present with a proper value.       *)
(* Reading an absent key yields undefined.                                 *)
(***************************************************************************)
Absent == "<absent>"
Undef == "<undefined>"

Val(x) == IF x = Absent THEN Undef ELSE x

\* Truthiness of an optional string, and of an optional boolean (booleans
\* are written "true" and "false").
Truthy(x) == x \notin {Absent, Undef, ""}

IsTrue(x) == x = "true"

(***************************************************************************)
(* Paths.  The working directory is /w; path.resolve turns a relative      *)
(* path into the absolute one and leaves an absolute path alone.           *)
(***************************************************************************)
AbsPaths == {"/w/a.ts", "/w/b.ts"}

RelPaths == {"a.ts"}

Paths == AbsPaths \cup RelPaths

Resolve(p) == IF p = "a.ts" THEN "/w/a.ts" ELSE p

(***************************************************************************)
(* SymbolType and SymbolInfo.                                              *)
(***************************************************************************)
SymbolType == {"function", "class", "method", "property", "interface",
               "type", "route", "variable"}

SymbolFields == {"symbol", "type", "file", "description", "signature",
                 "exported", "parentSymbol", "location", "metadata"}

SymbolInfo(n, t, f, d, sg, e, p, m) ==
    [symbol |-> n, type |-> t, file |-> f, description |-> d,
     signature |-> sg, exported |-> e, parentSymbol |-> p,
     location |-> Absent, metadata |-> m]

\* metadata objects are opaque values replaced as a whole by the spread;
\* metadata?.visibility reads the visibility out of one.
MetaVisibility(v) == "visibility=" \o v

MetaComponent == "isComponent"

MetaRoute == "route"

Visibility(s) ==
    CASE s.metadata = MetaVisibility("private") -> "private"
      [] s.metadata = MetaVisibility("protected") -> "protected"
      [] s.metadata = MetaVisibility("public") -> "public"
      [] OTHER -> Undef

(***************************************************************************)
(* The state.                                                              *)
(***************************************************************************)
VARIABLES
    symbols,          \* SymbolRegistry.symbols
    files,            \* SymbolRegistry.files
    lastFullRefresh,  \* SymbolRegistry.lastFullRefresh
    persisted,        \* the content of .symbol-registry.json
    disk,             \* the project files: existence and modification time
    now,              \* Date.now()
    lastOp,           \* the registry operation that completed last
    proc,             \* the server process: "boot", "ready" or "crashed"
    rr,               \* the refreshRegistry call in progress
    loop,             \* the request loop: lines received and their progress
    fu,               \* the findUsages call in progress
    rfs               \* the registerFileSymbols call in progress

vars == <<symbols, files, lastFullRefresh, persisted, disk, now, lastOp,
          proc, rr, loop, fu, rfs>>

regVars == <<symbols, files, lastFullRefresh, persisted, lastOp>>

envVars == <<disk, now>>

(***************************************************************************)
(* File system reads.                                                      *)
(***************************************************************************)
ExistsSync(p) == disk[Resolve(p)].exists

MtimeMs(p) == disk[Resolve(p)].mtime

(***************************************************************************)
(* Sequence helpers standing for Array.prototype methods.                  *)
(***************************************************************************)
\* findIndex: the first of the indices whose element satisfies the test
\* (hits), 0 for -1.
FindIndex(hits) ==
    IF hits = {} THEN 0 ELSE CHOOSE i \in hits : \A j \in hits : i <= j

RECURSIVE Join(_)
Join(params) ==
    IF params = <<>> THEN ""
    ELSE IF Len(params) = 1 THEN params[1]
         ELSE params[1] \o ", " \o Join(Tail(params))

(***************************************************************************)
(* JSON.stringify drops the keys whose value is undefined; JSON.parse      *)
(* gives back what was written.                                            *)
(***************************************************************************)
SerializeSymbol(s) == [k \in DOMAIN s |-> IF s[k] = Undef THEN Absent ELSE s[k]]

SerializeSymbols(syms) == [i \in 1..Len(syms) |-> SerializeSymbol(syms[i])]

Serialize(syms, fs, lfr) ==
    [kind |-> "state", symbols |-> SerializeSymbols(syms), files |-> fs,
     lastFullRefresh |-> lfr]

\* persistToDisk: the write either succeeds or throws, and the throw is
\* caught and logged.
PersistToDisk(old, syms, fs, lfr, writeOk) ==
    IF writeOk THEN Serialize(syms, fs, lfr) ELSE old

(***************************************************************************)
(* String.prototype methods.                                               *)
(***************************************************************************)
UpperCase == "ABCDEFGHIJKLMNOPQRSTUVWXYZ"

LowerCase == "abcdefghijklmnopqrstuvwxyz"

LowerChar(c) ==
    LET hits == {i \in 1..Len(UpperCase) : SubSeq(UpperCase, i, i) = c}
    IN  IF hits = {} THEN c
        ELSE LET i == CHOOSE i \in hits : TRUE IN SubSeq(LowerCase, i, i)

RECURSIVE ToLowerCase(_)
ToLowerCase(str) ==
    IF str = "" THEN ""
    ELSE LowerChar(SubSeq(str, 1, 1)) \o ToLowerCase(SubSeq(str, 2, Len(str)))

StartsWith(str, prefix) ==
    Len(prefix) <= Len(str) /\ SubSeq(str, 1, Len(prefix)) = prefix

Includes(str, part) ==
    \E i \in 1..(Len(str) - Len(part) + 1) :
        SubSeq(str, i, i + Len(part) - 1) = part

(***************************************************************************)
(* search: filter, rank, truncate.  A query's optional keys are Absent     *)
(* when not given; its limit is <<>> when not given and <<k>> otherwise.   *)
(***************************************************************************)
DefaultLimit == 20

SymbolSearchQuery(query, type, file, exactMatch, includePrivate, limit) ==
    [query |-> query, type |-> type, file |-> file, exactMatch |-> exactMatch,
     includePrivate |-> includePrivate, limit |-> limit]

Limit(q) == IF q.limit = <<>> THEN DefaultLimit ELSE q.limit[1]

\* A search that matches the name before it looks at the privacy flag.
SearchFilter_NoPrivacy(symbol, q) ==
    /\ Truthy(q.type) => symbol.type = q.type
    /\ Truthy(q.file) => Includes(symbol.file, q.file)
    /\ IF IsTrue(q.exactMatch)
       THEN symbol.symbol = q.query
       ELSE Includes(ToLowerCase(symbol.symbol), ToLowerCase(q.query))

SearchFilter(symbol, q) ==
    IF Truthy(q.type) /\ symbol.type # q.type THEN FALSE
    ELSE IF Truthy(q.file) /\ ~Includes(symbol.file, q.file) THEN FALSE
    ELSE IF /\ ~IsTrue(q.includePrivate)
            /\ \/ Visibility(symbol) = "private"
               \/ StartsWith(symbol.symbol, "_")
               \/ StartsWith(symbol.symbol, "#")
         THEN FALSE
    ELSE IF IsTrue(q.exactMatch) THEN symbol.symbol = q.query
    ELSE Includes(ToLowerCase(symbol.symbol), ToLowerCase(q.query))

TypePriority(type) ==
    CASE type = "function" -> 1
      [] type = "class" -> 2
      [] type = "route" -> 3
      [] type = "method" -> 4
      [] type = "interface" -> 5
      [] type = "type" -> 6
      [] type = "property" -> 7
      [] type = "variable" -> 8
      [] OTHER -> 999

\* A comparator that never looks at the exported flag.
Compare_NoExported(a, b, searchTerm) ==
    IF a.symbol = searchTerm /\ b.symbol # searchTerm THEN -1
    ELSE IF a.symbol # searchTerm /\ b.symbol = searchTerm THEN 1
    ELSE TypePriority(a.type) - TypePriority(b.type)

\* The comparator handed to results.sort.
Compare(a, b, searchTerm) ==
    IF a.symbol = searchTerm /\ b.symbol # searchTerm THEN -1
    ELSE IF a.symbol # searchTerm /\ b.symbol = searchTerm THEN 1
    ELSE IF IsTrue(a.exported) /\ ~IsTrue(b.exported) THEN -1
    ELSE IF ~IsTrue(a.exported) /\ IsTrue(b.exported) THEN 1
    ELSE TypePriority(a.type) - TypePriority(b.type)

\* Array.prototype.sort, which is stable: an element goes behind every one
\* that compares less and behind the earlier ones that compare equal.
Sort(results, searchTerm) ==
    LET n == Len(results)
        before == SubSeq([i \in 1..n |->
                      Cardinality({j \in 1..n :
                          \/ Compare(results[j], results[i], searchTerm) < 0
                          \/ /\ Compare(results[j], results[i], searchTerm) = 0
                             /\ j < i})], 1, n)
    IN  [k \in 1..n |-> results[CHOOSE i \in 1..n : before[i] = k - 1]]

\* A search that cuts the matches before it ranks them.
SearchIn_CutFirst(syms, q) ==
    LET results == SelectSeq(syms, LAMBDA symbol : SearchFilter(symbol, q))
        cut == IF Limit(q) > 0 /\ Len(results) > Limit(q)
               THEN SubSeq(results, 1, Limit(q)) ELSE results
    IN  Sort(cut, q.query)

SearchIn(syms, q) ==
    LET results == SelectSeq(syms, LAMBDA symbol : SearchFilter(symbol, q))
        sorted == Sort(results, q.query)
    IN  IF Limit(q) > 0 /\ Len(sorted) > Limit(q)
        THEN SubSeq(sorted, 1, Limit(q))
        ELSE sorted

(***************************************************************************)
(* The file tracker.                                                       *)
(***************************************************************************)
\* A tracker that stamps lastParsed only when it first sees the file.
TrackFileIn_KeepParsed(fs, filePath, exists, t) ==
    LET absolutePath == Resolve(filePath)
        existingIndex == FindIndex({i \in 1..Len(fs) : fs[i].path = absolutePath})
        lastModified == IF exists /\ ExistsSync(absolutePath)
                        THEN MtimeMs(absolutePath) ELSE t
    IN  IF existingIndex > 0
        THEN [fs EXCEPT ![existingIndex] =
                [@ EXCEPT !.lastModified = lastModified, !.exists = exists]]
        ELSE Append(fs, [path |-> absolutePath, lastParsed |-> t,
                         lastModified |-> lastModified, exists |-> exists])

TrackFileIn(fs, filePath, exists, t) ==
    LET absolutePath == Resolve(filePath)
        existingIndex == FindIndex({i \in 1..Len(fs) : fs[i].path = absolutePath})
        lastModified == IF exists /\ ExistsSync(absolutePath)
                        THEN MtimeMs(absolutePath) ELSE t
    IN  IF existingIndex > 0
        THEN [fs EXCEPT ![existingIndex] =
                [@ EXCEPT !.lastParsed = t, !.lastModified = lastModified,
                          !.exists = exists]]
        ELSE Append(fs, [path |-> absolutePath, lastParsed |-> t,
                         lastModified |-> lastModified, exists |-> exists])

FileNeedsRefreshIn(fs, filePath) ==
    LET absolutePath == Resolve(filePath)
        idx == FindIndex({i \in 1..Len(fs) : fs[i].path = absolutePath})
    IN  IF ~ExistsSync(absolutePath) THEN FALSE
        ELSE IF idx = 0 THEN TRUE
        ELSE MtimeMs(absolutePath) > fs[idx].lastParsed

FileNeedsRefresh(filePath) == FileNeedsRefreshIn(files, filePath)

\* A list that looks at the file system only, not at the exists flag.
GetFilesNeedingRefreshIn_AnyRecord(fs) ==
    LET stale == SelectSeq(fs, LAMBDA f : FileNeedsRefreshIn(fs, f.path))
    IN  [i \in 1..Len(stale) |-> stale[i].path]

GetFilesNeedingRefreshIn(fs) ==
    LET stale == SelectSeq(fs, LAMBDA f : f.exists /\ FileNeedsRefreshIn(fs, f.path))
    IN  [i \in 1..Len(stale) |-> stale[i].path]

GetFilesNeedingRefresh == GetFilesNeedingRefreshIn(files)

(***************************************************************************)
(* The symbol store.                                                       *)
(***************************************************************************)
\* A comparison of the parent keys as written, which tells an absent key
\* from a key set to undefined.
SameIdentity_RawParent(s, symbol) ==
    /\ s.symbol = symbol.symbol
    /\ s.type = symbol.type
    /\ s.file = symbol.file
    /\ s.parentSymbol = symbol.parentSymbol

SameIdentity(s, symbol) ==
    /\ s.symbol = symbol.symbol
    /\ s.type = symbol.type
    /\ s.file = symbol.file
    /\ Val(s.parentSymbol) = Val(symbol.parentSymbol)

\* A merge in which only the incoming values that are not undefined win.
Spread_DefinedWins(existing, symbol) ==
    [k \in DOMAIN existing |->
        IF Val(symbol[k]) = Undef THEN existing[k] ELSE symbol[k]]

\* { ...existing, ...symbol }: every key the incoming object has wins,
\* whatever its value; a key it lacks keeps the stored value.
Spread(existing, symbol) ==
    [k \in DOMAIN existing |-> IF symbol[k] = Absent THEN existing[k] ELSE symbol[k]]

RegisterSymbolIn(syms, symbol) ==
    LET existingIndex == FindIndex({i \in 1..Len(syms) : SameIdentity(syms[i], symbol)})
    IN  IF existingIndex > 0
        THEN [syms EXCEPT ![existingIndex] = Spread(syms[existingIndex], symbol)]
        ELSE Append(syms, symbol)

RECURSIVE RegisterAllIn(_, _)
RegisterAllIn(syms, list) ==
    IF list = <<>> THEN syms
    ELSE RegisterAllIn(RegisterSymbolIn(syms, Head(list)), Tail(list))

\* A removal that empties the store.
RemoveByFile_All(syms, filePath) == SelectSeq(syms, LAMBDA s : FALSE)

RemoveByFile(syms, filePath) == SelectSeq(syms, LAMBDA s : s.file # filePath)

(***************************************************************************)
(* registerFileSymbols: the fan-out of a parsed document into symbols.     *)
(* A document's missing array and its empty array behave alike (the loop   *)
(* body never runs); both are written << >>.                               *)
(***************************************************************************)
\* A signature that leaves the return type out.
CallSignature_NoReturn(d) == "(" \o Join(d.params) \o ")"

CallSignature(d) ==
    "(" \o Join(d.params) \o ")"
        \o (IF Truthy(d.returnType) THEN ": " \o d.returnType ELSE "")

TypeSignature(d) == IF Truthy(d.type) THEN ": " \o d.type ELSE ""

OrPublic(v) == IF Truthy(v) THEN v ELSE "public"

FunctionSymbol(filePath, func) ==
    SymbolInfo(func.name, "function", filePath, Val(func.description),
               CallSignature(func), Val(func.exported), Absent, Absent)

ClassSymbols(filePath, cls) ==
    <<SymbolInfo(cls.name, "class", filePath, Val(cls.description), Absent,
                 Val(cls.exported), Absent, MetaComponent)>>
    \o [i \in 1..Len(cls.methods) |->
          SymbolInfo(cls.methods[i].name, "method", filePath,
                     Val(cls.methods[i].description),
                     CallSignature(cls.methods[i]), Val(cls.exported),
                     cls.name, MetaVisibility(OrPublic(cls.methods[i].visibility)))]
    \o [i \in 1..Len(cls.properties) |->
          SymbolInfo(cls.properties[i].name, "property", filePath,
                     Val(cls.properties[i].description),
                     TypeSignature(cls.properties[i]), Val(cls.exported),
                     cls.name, MetaVisibility(OrPublic(cls.properties[i].visibility)))]

InterfaceSymbols(filePath, iface) ==
    <<SymbolInfo(iface.name, "interface", filePath, Val(iface.description),
                 Absent, Val(iface.exported), Absent, Absent)>>
    \o [i \in 1..Len(iface.properties) |->
          SymbolInfo(iface.properties[i].name, "property", filePath,
                     Val(iface.properties[i].description),
                     TypeSignature(iface.properties[i]), Val(iface.exported),
                     iface.name, Absent)]
    \o [i \in 1..Len(iface.methods) |->
          SymbolInfo(iface.methods[i].name, "method", filePath,
                     Val(iface.methods[i].description),
                     CallSignature(iface.methods[i]), Val(iface.exported),
                     iface.name, Absent)]

TypeAliasSymbol(filePath, typeAlias) ==
    SymbolInfo(typeAlias.name, "type", filePath, Val(typeAlias.description),
               ": " \o typeAlias.type, Val(typeAlias.exported), Absent, Absent)

RouteSymbol(filePath, route) ==
    SymbolInfo(route.method \o " " \o route.path, "route", filePath,
               Val(route.description), Absent, Absent, Absent, MetaRoute)

RECURSIVE Flatten(_)
Flatten(ss) == IF ss = <<>> THEN <<>> ELSE Head(ss) \o Flatten(Tail(ss))

\* The symbols registerFileSymbols registers for a document, in order.
FanOut(fileDoc) ==
    LET filePath == fileDoc.filePath
    IN  [i \in 1..Len(fileDoc.functions) |->
            FunctionSymbol(filePath, fileDoc.functions[i])]
        \o Flatten([i \in 1..Len(fileDoc.classes) |->
            ClassSymbols(filePath, fileDoc.classes[i])])
        \o Flatten([i \in 1..Len(fileDoc.interfaces) |->
            InterfaceSymbols(filePath, fileDoc.interfaces[i])])
        \o [i \in 1..Len(fileDoc.typeAliases) |->
            TypeAliasSymbol(filePath, fileDoc.typeAliases[i])]
        \o [i \in 1..Len(fileDoc.routes) |->
            RouteSymbol(filePath, fileDoc.routes[i])]

(***************************************************************************)
(* Inputs: parsed documents and symbols handed to the registry.            *)
(***************************************************************************)
FunctionDoc(n, d, rt, e) ==
    [name |-> n, params |-> <<"a", "b">>, returnType |-> rt,
     description |-> d, exported |-> e]

MethodDoc(n, v) ==
    [name |-> n, params |-> <<"user">>, returnType |-> "boolean",
     description |-> Absent, visibility |-> v]

PropertyDoc(n, t) ==
    [name |-> n, type |-> t, description |-> Absent, visibility |-> Absent]

FileDoc(p, fns, cls, ifs, tas, rts) ==
    [filePath |-> p, functions |-> fns, classes |-> cls, interfaces |-> ifs,
     typeAliases |-> tas, routes |-> rts]

DocEmpty(p) == FileDoc(p, <<>>, <<>>, <<>>, <<>>, <<>>)

DocAdd(p) ==
    FileDoc(p, <<FunctionDoc("add", "d1", "number", "true")>>,
            <<>>, <<>>, <<>>, <<>>)

DocAddSub(p) ==
    FileDoc(p, <<FunctionDoc("add", Absent, "number", "true"),
                 FunctionDoc("_sub", "d2", Absent, "false")>>,
            <<>>, <<>>, <<>>, <<>>)

DocTwice(p) ==
    FileDoc(p, <<FunctionDoc("add", "d1", "number", "true"),
                 FunctionDoc("add", Absent, Absent, "false")>>,
            <<>>, <<>>, <<>>, <<>>)

DocClass(p) ==
    FileDoc(p, <<>>,
            <<[name |-> "Auth", description |-> "d1", exported |-> "true",
               methods |-> <<MethodDoc("login", "private")>>,
               properties |-> <<PropertyDoc("users", "Map")>>]>>,
            <<>>, <<>>, <<>>)

DocInterface(p) ==
    FileDoc(p, <<>>, <<>>,
            <<[name |-> "User", description |-> Absent, exported |-> "false",
               properties |-> <<PropertyDoc("id", Absent)>>,
               methods |-> <<MethodDoc("login", Absent)>>]>>,
            <<>>, <<>>)

DocTypeRoute(p) ==
    FileDoc(p, <<>>, <<>>, <<>>,
            <<[name |-> "Id", type |-> "string", description |-> Absent,
               exported |-> "true"]>>,
            <<[method |-> "GET", path |-> "/users", handler |-> "add",
               description |-> "GET /users"]>>)

DocsFor(p) ==
    {DocEmpty(p), DocAdd(p), DocAddSub(p), DocTwice(p), DocClass(p),
     DocInterface(p), DocTypeRoute(p)}

Docs == DocsFor("/w/a.ts")
            \cup {DocEmpty("a.ts"), DocAdd("a.ts"), DocAddSub("a.ts")}
            \cup {DocAdd("/w/b.ts")}

\* Symbols handed to registerSymbol directly.
SymbolInput(d, par) ==
    SymbolInfo("add", "function", "/w/b.ts", d, Absent, Absent, par, Absent)

SymbolInputs ==
    {SymbolInput("d1", Absent), SymbolInput("d2", Undef), SymbolInput("d1", "Auth")}

MergeInputs ==
    {SymbolInput(d, par) :
        d \in {Absent, Undef, "d1", "d2"}, par \in {Absent, Undef, "Auth"}}

Patterns == {<<"**/*.ts">>, <<"a.*">>, <<"**/*.ts", "a.*">>}

\* glob with absolute: true: the files on disk that match the pattern.
Glob(pattern) ==
    LET hits == {f \in AbsPaths :
                    /\ disk[f].exists
                    /\ \/ pattern = "**/*.ts"
                       \/ pattern = "a.*" /\ f = "/w/a.ts"}
    IN  IF hits = {} THEN <<>>
        ELSE IF hits = AbsPaths THEN <<"/w/a.ts", "/w/b.ts">>
        ELSE <<CHOOSE f \in hits : TRUE>>

\* The operation completed last: its name, its argument, whether a write of
\* the state failed during it, and the number of writes it attempted.
\* prev holds the stored entry registerSymbol found (none when it appended).
NoOp ==
    [op |-> "none", arg |-> "", failed |-> FALSE, writes |-> 0, prev |-> <<>>,
     result |-> <<>>]

Op(name, arg, failed, writes) ==
    [op |-> name, arg |-> arg, failed |-> failed, writes |-> writes, prev |-> <<>>,
     result |-> <<>>]

\* A call of refreshRegistry: where it stands, its locals, the files the
\* parser gave a document for, the step that threw, whether the file system
\* changed under it, and what it returned.
IdleRefresh ==
    [pc |-> "idle", fullScan |-> FALSE, filesToProcess |-> <<>>, idx |-> 0,
     filesRemoved |-> 0, parsed |-> {}, failed |-> {}, threwAt |-> "none",
     fsChanged |-> FALSE,
     refreshed |-> FALSE, error |-> Absent, rejected |-> FALSE]

\* The request loop: the requests taken off stdin, in order, each with where
\* its processMCPRequest stands, and the responses written to stdout.
IdleLoop == [reqs |-> <<>>, out |-> <<>>]

\* A call of findUsages: where it stands, its input and what it returned.
IdleUsages == [pc |-> "idle", input |-> <<>>, result |-> <<>>]

\* A call of registerFileSymbols: where it stands, its document, the symbols
\* of the document and the one to register next.
IdleRegister == [pc |-> "idle", fileDoc |-> <<>>, list |-> <<>>, idx |-> 0]

(***************************************************************************)
(* The registry's operations.                                              *)
(***************************************************************************)
RegisterSymbol(symbol, writeOk) ==
    /\ proc = "ready"
    /\ Len(RegisterSymbolIn(symbols, symbol)) <= MaxSymbols
    /\ symbols' = RegisterSymbolIn(symbols, symbol)
    /\ persisted' = PersistToDisk(persisted, symbols', files, lastFullRefresh, writeOk)
    /\ lastOp' = [Op("registerSymbol", symbol, ~writeOk, 1) EXCEPT !.prev =
                     LET i == FindIndex({j \in 1..Len(symbols) : SameIdentity(symbols[j], symbol)})
                     IN  IF i > 0 THEN <<symbols[i]>> ELSE <<>>]
    /\ UNCHANGED <<files, lastFullRefresh, disk, now, proc, rr, loop, rfs, fu>>

\* registerFileSymbols persists inside every registerSymbol call; okUpTo is
\* the number of the last write that succeeded (0: none did).
RegisterFileSymbols(fileDoc, okUpTo) ==
    LET filePath == fileDoc.filePath
        tracked == TrackFileIn(files, filePath, TRUE, now)
        cleared == RemoveByFile(symbols, filePath)
        list == FanOut(fileDoc)
    IN  /\ proc = "ready"
        /\ okUpTo \in 0..Len(list)
        /\ Len(RegisterAllIn(cleared, list)) <= MaxSymbols
        /\ files' = tracked
        /\ symbols' = RegisterAllIn(cleared, list)
        /\ persisted' =
              IF okUpTo = 0 THEN persisted
              ELSE Serialize(RegisterAllIn(cleared, SubSeq(list, 1, okUpTo)),
                             tracked, lastFullRefresh)
        /\ lastOp' = Op("registerFileSymbols", fileDoc, okUpTo < Len(list),
                        Len(list))
        /\ UNCHANGED <<lastFullRefresh, disk, now, proc, rr, loop, rfs, fu>>

(***************************************************************************)
(* registerFileSymbols statement by statement: the record and the purge,   *)
(* one registerSymbol (with its write of the state file) per symbol of the *)
(* document, and the return.  The method holds no await, so the event loop *)
(* gives no other callback a turn between its entry and its return.        *)
(***************************************************************************)
\* An event loop that dispatches a callback inside a synchronous call.
Turn_Anytime == TRUE

\* Another callback (a request's handler, the continuation of an await) can
\* run: no synchronous call of registerFileSymbols is on the stack.
Turn == rfs.pc = "idle"

RegisterFileSymbolsBegin(fileDoc) ==
    LET filePath == fileDoc.filePath
        list == FanOut(fileDoc)
    IN  /\ proc = "ready"
        /\ rfs.pc = "idle"
        /\ Len(RegisterAllIn(RemoveByFile(symbols, filePath), list)) <= MaxSymbols
        /\ files' = TrackFileIn(files, filePath, TRUE, now)
        /\ symbols' = RemoveByFile(symbols, filePath)
        /\ rfs' = [pc |-> "inserting", fileDoc |-> <<fileDoc>>, list |-> list,
                   idx |-> 1]
        /\ lastOp' = NoOp
        /\ UNCHANGED <<lastFullRefresh, persisted, disk, now, proc, rr, loop, fu>>

RegisterFileSymbolsInsert(writeOk) ==
    /\ rfs.pc = "inserting"
    /\ rfs.idx <= Len(rfs.list)
    /\ symbols' = RegisterSymbolIn(symbols, rfs.list[rfs.idx])
    /\ persisted' = PersistToDisk(persisted, symbols', files, lastFullRefresh, writeOk)
    /\ rfs' = [rfs EXCEPT !.idx = rfs.idx + 1]
    /\ UNCHANGED <<files, lastFullRefresh, disk, now, lastOp, proc, rr, loop, fu>>

RegisterFileSymbolsEnd ==
    /\ rfs.pc = "inserting"
    /\ rfs.idx > Len(rfs.list)
    /\ rfs' = IdleRegister
    /\ lastOp' = Op("registerFileSymbols", rfs.fileDoc[1], FALSE, Len(rfs.list))
    /\ UNCHANGED <<symbols, files, lastFullRefresh, persisted, disk, now, proc,
                   rr, loop, fu>>

TrackFile(filePath, exists) ==
    /\ proc = "ready"
    /\ files' = TrackFileIn(files, filePath, exists, now)
    /\ lastOp' = Op("trackFile", filePath, FALSE, 0)
    /\ UNCHANGED <<symbols, lastFullRefresh, persisted, disk, now, proc, rr, loop, rfs, fu>>

\* getFilesNeedingRefresh is called.
ListFilesNeedingRefresh ==
    /\ proc = "ready"
    /\ lastOp' = [Op("getFilesNeedingRefresh", "", FALSE, 0)
                    EXCEPT !.result = GetFilesNeedingRefresh]
    /\ UNCHANGED <<symbols, files, lastFullRefresh, persisted, disk, now, proc,
                   rr, loop, rfs, fu>>

CleanupSymbols(syms, fs) ==
    SelectSeq(syms, LAMBDA s :
        \A i \in 1..Len(fs) : ExistsSync(fs[i].path) \/ s.file # fs[i].path)

CleanupFiles(fs) ==
    [i \in 1..Len(fs) |->
        IF ExistsSync(fs[i].path) THEN fs[i] ELSE [fs[i] EXCEPT !.exists = FALSE]]

CleanupDeletedFiles(writeOk) ==
    /\ proc = "ready"
    /\ symbols' = CleanupSymbols(symbols, files)
    /\ files' = CleanupFiles(files)
    /\ persisted' = PersistToDisk(persisted, symbols', files', lastFullRefresh, writeOk)
    /\ lastOp' = Op("cleanupDeletedFiles", "", ~writeOk, 1)
    /\ UNCHANGED <<lastFullRefresh, disk, now, proc, rr, loop, rfs, fu>>

\* A removal that marks the record whether or not the file is on disk.
MarkDeleted_Always(fs, absolutePath) ==
    LET fileIndex == FindIndex({i \in 1..Len(fs) : fs[i].path = absolutePath})
    IN  IF fileIndex > 0 THEN [fs EXCEPT ![fileIndex].exists = FALSE] ELSE fs

MarkDeleted(fs, absolutePath) ==
    LET fileIndex == FindIndex({i \in 1..Len(fs) : fs[i].path = absolutePath})
    IN  IF ~ExistsSync(absolutePath) /\ fileIndex > 0
        THEN [fs EXCEPT ![fileIndex].exists = FALSE]
        ELSE fs

RemoveFileSymbols(filePath, writeOk) ==
    LET absolutePath == Resolve(filePath)
    IN  /\ proc = "ready"
        /\ symbols' = RemoveByFile(symbols, absolutePath)
        /\ files' = MarkDeleted(files, absolutePath)
        /\ persisted' = PersistToDisk(persisted, symbols', files', lastFullRefresh, writeOk)
        /\ lastOp' = Op("removeFileSymbols", filePath, ~writeOk, 1)
        /\ UNCHANGED <<lastFullRefresh, disk, now, proc, rr, loop, rfs, fu>>

RECURSIVE TrackNew(_, _)
TrackNew(fs, found) ==
    IF found = <<>> THEN fs
    ELSE IF \E i \in 1..Len(fs) : fs[i].path = Head(found)
         THEN TrackNew(fs, Tail(found))
         ELSE TrackNew(TrackFileIn(fs, Head(found), TRUE, now), Tail(found))

FoundFiles(patterns) == Flatten([i \in 1..Len(patterns) |-> Glob(patterns[i])])

FullScan(patterns) ==
    /\ proc = "ready"
    /\ files' = TrackNew(files, FoundFiles(patterns))
    /\ lastOp' = [Op("fullScan", "", FALSE, 0) EXCEPT !.result = FoundFiles(patterns)]
    /\ UNCHANGED <<symbols, lastFullRefresh, persisted, disk, now, proc, rr, loop, rfs, fu>>

Clear(writeOk) ==
    /\ proc = "ready"
    /\ symbols' = <<>>
    /\ files' = <<>>
    /\ lastFullRefresh' = 0
    /\ persisted' = PersistToDisk(persisted, <<>>, <<>>, 0, writeOk)
    /\ lastOp' = Op("clear", "", ~writeOk, 1)
    /\ UNCHANGED <<disk, now, proc, rr, loop, rfs, fu>>

GetAllSymbols ==
    /\ proc = "ready"
    /\ lastOp' = [Op("getAllSymbols", "", FALSE, 0) EXCEPT !.result = symbols]
    /\ UNCHANGED <<symbols, files, lastFullRefresh, persisted, disk, now, proc,
                   rr, loop, rfs, fu>>

(***************************************************************************)
(* search as an operation, and what it is asked over.                      *)
(***************************************************************************)
Search(q) ==
    /\ proc = "ready"
    /\ lastOp' = [Op("search", q, FALSE, 0) EXCEPT !.result = SearchIn(symbols, q)]
    /\ UNCHANGED <<symbols, files, lastFullRefresh, persisted, disk, now, proc,
                   rr, loop, rfs, fu>>

\* Symbols whose names hold "add" in several spellings, of several kinds,
\* exported or not, private by name or by visibility; "ns" is a kind outside
\* SymbolType, as a state file written by another version can hold.
SearchSymbols ==
    {SymbolInfo("add", "method", "/w/a.ts", Absent, "(a, b)", "true", "Auth",
                MetaVisibility("private")),
     SymbolInfo("add", "variable", "/w/b.ts", Absent, Absent, Absent, Absent, Absent),
     SymbolInfo("Add", "class", "/w/b.ts", Absent, Absent, "true", Absent, MetaComponent),
     SymbolInfo("_add", "variable", "/w/b.ts", Absent, Absent, Absent, Absent, Absent),
     SymbolInfo("#add", "property", "/w/b.ts", Absent, "", "false", "Auth",
                MetaVisibility("public")),
     SymbolInfo("padding", "ns", "/w/a.ts", Absent, Absent, "true", Absent, Absent)}

Queries ==
    {SymbolSearchQuery("add", Absent, Absent, exactMatch, includePrivate, limit) :
        exactMatch \in {Absent, "true"},
        includePrivate \in {Absent, "true"},
        limit \in {<<0>>, <<1>>}}
    \cup {SymbolSearchQuery("ADD", Absent, Absent, Absent, "true", limit) :
        limit \in {<<0>>, <<1>>}}
    \cup {SymbolSearchQuery("add", type, file, Absent, "true", <<>>) :
        type \in {"class", "variable"}, file \in {Absent, "b.ts"}}
    \cup {SymbolSearchQuery("", Absent, Absent, "false", "false", <<l>>) : l \in {-1, 2}}
    \cup {SymbolSearchQuery("Add", Undef, "", Undef, Undef, <<2>>)}

(***************************************************************************)
(* autocompleteSymbol.                                                     *)
(***************************************************************************)
AutocompleteLimit == 10

AutocompleteSymbolInput(prefix, type, limit, includePrivate) ==
    [prefix |-> prefix, type |-> type, limit |-> limit,
     includePrivate |-> includePrivate]

\* The switch over input.type.toLowerCase().
CompletionType(type) ==
    IF Truthy(type) /\ ToLowerCase(type) \in SymbolType
    THEN ToLowerCase(type) ELSE Undef

\* input.limit || 10
CompletionLimit(input) ==
    IF input.limit = <<>> \/ input.limit = <<0>>
    THEN AutocompleteLimit ELSE input.limit[1]

CompletionQuery(input) ==
    SymbolSearchQuery(input.prefix, CompletionType(input.type), Absent, "false",
                      IF IsTrue(input.includePrivate) THEN "true" ELSE "false",
                      <<CompletionLimit(input)>>)

Completion(result) ==
    [symbol |-> result.symbol, type |-> result.type,
     signature |-> result.signature, description |-> result.description,
     filePath |-> result.file]

AutocompleteSymbolIn(syms, input) ==
    IF ~Truthy(input.prefix) THEN <<>>
    ELSE LET results == SearchIn(syms, CompletionQuery(input))
         IN  [i \in 1..Len(results) |-> Completion(results[i])]

AutocompleteSymbol(input) ==
    /\ proc = "ready"
    /\ lastOp' = [Op("autocompleteSymbol", input, FALSE, 0)
                    EXCEPT !.result = AutocompleteSymbolIn(symbols, input)]
    /\ UNCHANGED <<symbols, files, lastFullRefresh, persisted, disk, now, proc,
                   rr, loop, rfs, fu>>

AutocompleteInputs ==
    {AutocompleteSymbolInput(prefix, Absent, limit, includePrivate) :
        prefix \in {"add", "Add"}, limit \in {<<>>, <<1>>},
        includePrivate \in {Absent, "true"}}
    \cup {AutocompleteSymbolInput("ad", "Variable", <<0>>, "true"),
          AutocompleteSymbolInput("add", "any", <<2>>, Absent),
          AutocompleteSymbolInput(Absent, Absent, <<>>, Absent)}

(***************************************************************************)
(* searchProjectSymbols.  Its switch over input.type.toLowerCase() is the  *)
(* one of autocompleteSymbol.                                              *)
(***************************************************************************)
SearchProjectSymbolsInput(query, type, file, exactMatch, includePrivate, limit) ==
    [query |-> query, type |-> type, file |-> file, exactMatch |-> exactMatch,
     includePrivate |-> includePrivate, limit |-> limit]

SearchProjectSymbolsIn(syms, input) ==
    IF ~Truthy(input.query) THEN <<>>
    ELSE SearchIn(syms, SymbolSearchQuery(input.query, CompletionType(input.type),
                                          input.file, input.exactMatch,
                                          input.includePrivate, input.limit))

SearchProjectSymbols(input) ==
    /\ proc = "ready"
    /\ lastOp' = [Op("searchProjectSymbols", input, FALSE, 0)
                    EXCEPT !.result = SearchProjectSymbolsIn(symbols, input)]
    /\ UNCHANGED <<symbols, files, lastFullRefresh, persisted, disk, now, proc,
                   rr, loop, rfs, fu>>

ProjectInputs ==
    {SearchProjectSymbolsInput("add", type, Absent, Absent, includePrivate, <<>>) :
        type \in {Absent, "class", "Variable", "enum", "ns"},
        includePrivate \in {Absent, "true"}}
    \cup {SearchProjectSymbolsInput(Absent, "class", Absent, Absent, Absent, <<>>),
          SearchProjectSymbolsInput("Add", "method", "b.ts", "true", "false", <<1>>)}

(***************************************************************************)
(* getDocForSymbol.  An optional member of the result is a sequence of     *)
(* length 0 (undefined) or 1.                                              *)
(***************************************************************************)
ChildrenLimit == 50

GetDocForSymbolInput(symbol, type, file, includeRelated) ==
    [symbol |-> symbol, type |-> type, file |-> file,
     includeRelated |-> includeRelated]

RelatedSymbolInfo(s, relationship) ==
    [symbol |-> s.symbol, type |-> s.type, relationship |-> relationship,
     description |-> s.description]

\* The parent of a method or property, when the store holds it.
ParentOf(syms, symbolInfo) ==
    LET parentSearch ==
            SearchIn(syms, SymbolSearchQuery(symbolInfo.parentSymbol, Absent,
                                             Absent, "true", Absent, <<1>>))
    IN  IF Truthy(symbolInfo.parentSymbol) /\ parentSearch # <<>>
        THEN <<RelatedSymbolInfo(parentSearch[1], "parent")>>
        ELSE <<>>

\* The methods and properties of a class or interface: the broad search,
\* filtered by parent.
ChildrenOf(syms, symbolInfo) ==
    LET childrenSearch ==
            SearchIn(syms, SymbolSearchQuery("", Absent, Absent, "false", "true",
                                             <<ChildrenLimit>>))
        children == SelectSeq(childrenSearch,
                              LAMBDA s : s.parentSymbol = symbolInfo.symbol)
    IN  IF symbolInfo.type \in {"class", "interface"}
        THEN [i \in 1..Len(children) |-> RelatedSymbolInfo(children[i], "child")]
        ELSE <<>>

GetDocForSymbolIn(syms, input) ==
    LET searchResult ==
            SearchIn(syms, SymbolSearchQuery(input.symbol, CompletionType(input.type),
                                             input.file, "true", "true", <<1>>))
        symbolInfo == searchResult[1]
        relatedSymbols ==
            IF input.includeRelated # "false"
            THEN ParentOf(syms, symbolInfo) \o ChildrenOf(syms, symbolInfo)
            ELSE <<>>
    IN  IF ~Truthy(input.symbol)
        THEN [found |-> FALSE, error |-> "Missing or invalid symbol name",
              symbol |-> <<>>]
        ELSE IF searchResult = <<>>
        THEN [found |-> FALSE, error |-> "Symbol not found", symbol |-> <<>>]
        ELSE [found |-> TRUE, error |-> Absent,
              symbol |-> <<[name |-> symbolInfo.symbol, type |-> symbolInfo.type,
                            file |-> symbolInfo.file,
                            description |-> symbolInfo.description,
                            signature |-> symbolInfo.signature,
                            exported |-> symbolInfo.exported,
                            visibility |-> Visibility(symbolInfo),
                            metadata |-> symbolInfo.metadata,
                            relatedSymbols |-> IF relatedSymbols = <<>> THEN <<>>
                                               ELSE <<relatedSymbols>>]>>]

GetDocForSymbol(input) ==
    /\ proc = "ready"
    /\ lastOp' = [Op("getDocForSymbol", input, FALSE, 0)
                    EXCEPT !.result = GetDocForSymbolIn(symbols, input)]
    /\ UNCHANGED <<symbols, files, lastFullRefresh, persisted, disk, now, proc,
                   rr, loop, rfs, fu>>

\* A store of a class T in /w/a.ts with k members, and n exported functions
\* in /w/b.ts.
Digit(i) == SubSeq("0123456789", i + 1, i + 1)

Filler(i) ==
    SymbolInfo("f" \o Digit(i \div 10) \o Digit(i % 10), "function", "/w/b.ts",
               Absent, "()", "true", Absent, Absent)

Members ==
    <<SymbolInfo("run", "method", "/w/a.ts", "d1", "()", Absent, "T",
                 MetaVisibility("public")),
      SymbolInfo("_id", "property", "/w/a.ts", Absent, Absent, Absent, "T",
                 MetaVisibility("private"))>>

RelatedStore(n, k) ==
    <<SymbolInfo("T", "class", "/w/a.ts", "d1", Absent, "true", Absent, Absent)>>
    \o SubSeq(Members, 1, k) \o [i \in 1..n |-> Filler(i)]

RelatedStores ==
    {RelatedStore(n, k) : n \in (MaxFillers - 3)..MaxFillers, k \in 0..2}

RelatedInputs ==
    {GetDocForSymbolInput(symbol, Absent, Absent, includeRelated) :
        symbol \in {"T", "run", "f01"}, includeRelated \in {Absent, "false"}}
    \cup {GetDocForSymbolInput("T", "Class", "a.ts", "true"),
          GetDocForSymbolInput("T", "method", Absent, Absent),
          GetDocForSymbolInput(Absent, Absent, Absent, Absent)}

(***************************************************************************)
(* The environment: the project's files and the clock.  A step of the      *)
(* environment ends the moment "right after" the last operation.           *)
(***************************************************************************)
\* A call of refreshRegistry that is under way sees the file system change.
DuringRefresh ==
    IF rr.pc = "idle" THEN rr ELSE [rr EXCEPT !.fsChanged = TRUE]

DeleteFile(f) ==
    /\ disk[f].exists
    /\ disk' = [disk EXCEPT ![f] = [exists |-> FALSE, mtime |-> 0, content |-> ""]]
    /\ lastOp' = NoOp
    /\ rr' = DuringRefresh
    /\ UNCHANGED <<symbols, files, lastFullRefresh, persisted, now, proc, loop, rfs, fu>>

WriteFile(f, c) ==
    /\ disk[f] # [exists |-> TRUE, mtime |-> now, content |-> c]
    /\ disk' = [disk EXCEPT ![f] = [exists |-> TRUE, mtime |-> now, content |-> c]]
    /\ lastOp' = NoOp
    /\ rr' = DuringRefresh
    /\ UNCHANGED <<symbols, files, lastFullRefresh, persisted, now, proc, loop, rfs, fu>>

Tick ==
    /\ now < MaxTime
    /\ now' = now + 1
    /\ lastOp' = NoOp
    /\ UNCHANGED <<symbols, files, lastFullRefresh, persisted, disk, proc, rr,
                   loop, rfs, fu>>

(***************************************************************************)
(* getDocForFile: the parser front end.  The source text of a file stands  *)
(* for what the extractors find in it; "broken" is a text the parser       *)
(* throws on.                                                              *)
(***************************************************************************)
Contents == {"add", "addsub", "broken"}

ErrorResponse(error) == [error |-> error]

IsError(response) == "error" \in DOMAIN response

ParseSource(file, content) ==
    IF content = "addsub" THEN DocAddSub(file)
    ELSE IF content = "use" THEN DocEmpty(file)
    ELSE DocAdd(file)

GetDocForFile(file) ==
    LET filePath == Resolve(file)
    IN  IF ~Truthy(file) THEN ErrorResponse("Invalid input")
        ELSE IF ~ExistsSync(filePath) THEN ErrorResponse("File not found")
        ELSE IF disk[filePath].content = "broken" THEN ErrorResponse("Parsing error")
        ELSE ParseSource(file, disk[filePath].content)

(***************************************************************************)
(* refreshRegistry, one action per stretch between two awaits.  Any step   *)
(* may throw (the `throws` inputs); the catch block turns that into the    *)
(* result.                                                                 *)
(***************************************************************************)
\* A refresh whose cleanup runs before the try block is entered.
Caught_CleanupOutside(r, step) ==
    IF step = "cleanup"
    THEN [r EXCEPT !.pc = "done", !.threwAt = step, !.rejected = TRUE]
    ELSE [r EXCEPT !.pc = "done", !.threwAt = step, !.refreshed = FALSE,
                   !.error = "message"]

\* catch (error): refreshed: false with the error's message.
Caught(r, step) ==
    [r EXCEPT !.pc = "done", !.threwAt = step, !.refreshed = FALSE,
              !.error = "message"]

\* refreshRegistry up to its first await.
RefreshBegin(fullScan, patterns, throws) ==
    LET syms == CleanupSymbols(symbols, files)
        cleaned == CleanupFiles(files)
        found == FoundFiles(patterns)
        call == [IdleRefresh EXCEPT !.fullScan = fullScan]
    IN  /\ proc = "ready"
        /\ rr.pc = "idle"
        /\ lastOp' = Op("refreshRegistry", "", FALSE, 0)
        /\ IF throws = "cleanup"
           THEN /\ rr' = Caught(call, "cleanup")
                /\ UNCHANGED <<symbols, files, persisted>>
           ELSE /\ symbols' = syms
                /\ persisted' = PersistToDisk(persisted, syms, cleaned, lastFullRefresh, TRUE)
                /\ IF throws = "discover"
                   THEN /\ rr' = Caught(call, "discover")
                        /\ files' = cleaned
                   ELSE IF fullScan
                   THEN /\ files' = TrackNew(cleaned, found)
                        /\ rr' = [call EXCEPT !.pc = "loop", !.idx = 1,
                                              !.filesToProcess = found]
                   ELSE /\ files' = cleaned
                        /\ rr' = [call EXCEPT !.pc = "loop", !.idx = 1,
                                     !.filesToProcess = GetFilesNeedingRefreshIn(cleaned)]
        /\ UNCHANGED <<lastFullRefresh, disk, now, proc, loop, rfs>>

RefreshStart(fullScan, patterns, throws) ==
    RefreshBegin(fullScan, patterns, throws) /\ UNCHANGED fu

\* One pass of the loop over filesToProcess.
RefreshFile(throws) ==
    LET filePath == rr.filesToProcess[rr.idx]
        doc == GetDocForFile(filePath)
    IN  /\ proc = "ready"
        /\ rr.pc = "loop"
        /\ rr.idx <= Len(rr.filesToProcess)
        /\ lastOp' = Op("refreshRegistry", "", FALSE, 0)
        /\ IF ExistsSync(filePath)
           THEN /\ rr' = IF throws THEN Caught(rr, "parse")
                         ELSE [rr EXCEPT !.idx = @ + 1,
                                  !.parsed = IF IsError(doc) THEN @ ELSE @ \cup {filePath},
                                  !.failed = IF IsError(doc) THEN @ \cup {filePath} ELSE @]
                /\ UNCHANGED <<symbols, files, persisted>>
           ELSE IF throws
           THEN /\ rr' = Caught(rr, "remove")
                /\ UNCHANGED <<symbols, files, persisted>>
           ELSE /\ symbols' = RemoveByFile(symbols, Resolve(filePath))
                /\ files' = MarkDeleted(files, Resolve(filePath))
                /\ persisted' = PersistToDisk(persisted, symbols', files', lastFullRefresh, TRUE)
                /\ rr' = [rr EXCEPT !.idx = @ + 1, !.filesRemoved = @ + 1]
        /\ UNCHANGED <<lastFullRefresh, disk, now, proc, loop, rfs, fu>>

RefreshReturn ==
    /\ proc = "ready"
    /\ rr.pc = "loop"
    /\ rr.idx > Len(rr.filesToProcess)
    /\ rr' = [rr EXCEPT !.pc = "done", !.refreshed = TRUE]
    /\ lastOp' = Op("refreshRegistry", "", FALSE, 0)
    /\ UNCHANGED <<symbols, files, lastFullRefresh, persisted, disk, now, proc,
                   loop, rfs, fu>>

\* The caller has the result; the next call can start.
RefreshDone ==
    /\ rr.pc = "done"
    /\ rr' = IdleRefresh
    /\ lastOp' = NoOp
    /\ UNCHANGED <<symbols, files, lastFullRefresh, persisted, disk, now, proc,
                   loop, rfs, fu>>

(***************************************************************************)
(* findUsages.  A file is read as its lines (readFileSync and split); the  *)
(* regular expressions are matched on the text.                            *)
(***************************************************************************)
DefaultMaxResults == 50

SourceLines(content) ==
    CASE content = "add" ->
            <<"// sum", "export function add(a, b) {", "  return a + b;", "}">>
      [] content = "addsub" ->
            <<"export function add(a, b) {", "  return a + b;", "}",
              "function _sub(a, b) { return add(a, 0 - b); }">>
      [] content = "use" ->
            <<"import { add } from './address';", "const x = add(1, add(2, 3));">>
      [] content = "const" ->
            <<"export const add = (a, b) => a + b;", "export default add;">>
      [] content = "broken" -> <<"export function add(a, b {">>
      [] OTHER -> <<"">>

ReadLines(file) == SourceLines(disk[Resolve(file)].content)

WordChars == "abcdefghijklmnopqrstuvwxyzABCDEFGHIJKLMNOPQRSTUVWXYZ0123456789_"

CharAt(str, i) == IF i \in 1..Len(str) THEN SubSeq(str, i, i) ELSE ""

IsWordChar(c) == \E i \in 1..Len(WordChars) : SubSeq(WordChars, i, i) = c

\* \b just before position i.
Boundary(str, i) == IsWordChar(CharAt(str, i - 1)) # IsWordChar(CharAt(str, i))

\* \s* from position i on: the first position that holds no blank.
RECURSIVE SkipBlanks(_, _)
SkipBlanks(str, i) ==
    IF CharAt(str, i) = " " THEN SkipBlanks(str, i + 1) ELSE i

NameAt(str, name, i) == SubSeq(str, i, i + Len(name) - 1) = name

\* The positions where \bname\b matches.
Occurrences(line, name) ==
    {i \in 1..(Len(line) - Len(name) + 1) :
        /\ NameAt(line, name, i)
        /\ Boundary(line, i)
        /\ Boundary(line, i + Len(name))}

\* The positions where \bname\s*<closer> matches.
NameThen(line, name, closer) ==
    {i \in 1..(Len(line) - Len(name) + 1) :
        /\ NameAt(line, name, i)
        /\ Boundary(line, i)
        /\ CharAt(line, SkipBlanks(line, i + Len(name))) = closer}

\* The positions where \bfunction\s+name\b matches.
FunctionThen(line, name) ==
    {i \in 1..(Len(line) - 8) :
        /\ NameAt(line, "function", i)
        /\ Boundary(line, i)
        /\ CharAt(line, i + 8) = " "
        /\ NameAt(line, name, SkipBlanks(line, i + 8))
        /\ Boundary(line, SkipBlanks(line, i + 8) + Len(name))}

\* The four patterns of the definition heuristic, in order.
DefinitionPatterns(line, name) ==
    <<NameThen(line, name, "("), NameThen(line, name, "{"),
      NameThen(line, name, ":"), FunctionThen(line, name)>>

\* match.index of the first pattern that matches the line, -1 when none does.
DefinitionMatch(line, name) ==
    LET patterns == DefinitionPatterns(line, name)
        hit == FindIndex({k \in 1..Len(patterns) : patterns[k] # {}})
    IN  IF hit = 0 THEN -1 ELSE FindIndex(patterns[hit]) - 1

UsageLocation(file, line, column, isDefinition) ==
    [file |-> file, line |-> line, column |-> column, isDefinition |-> isDefinition]

\* The definition loop from line i (0-based) on: the scan ends after a line
\* that matches only when definitionLine > 0.
RECURSIVE DefinitionScan(_, _, _, _)
DefinitionScan(symbolFile, lines, name, i) ==
    IF i >= Len(lines) THEN <<>>
    ELSE IF DefinitionMatch(lines[i + 1], name) >= 0
         THEN <<UsageLocation(symbolFile, i + 1,
                              DefinitionMatch(lines[i + 1], name) + 1, TRUE)>>
              \o (IF i > 0 THEN <<>>
                  ELSE DefinitionScan(symbolFile, lines, name, i + 1))
         ELSE DefinitionScan(symbolFile, lines, name, i + 1)

\* The set of positions as a sequence, ascending.
RECURSIVE Ascending(_)
Ascending(positions) ==
    IF positions = {} THEN <<>>
    ELSE LET first == FindIndex(positions)
         IN  <<first>> \o Ascending(positions \ {first})

\* The matches of \bname\b in a file, in the order the scan meets them.
FileMatches(file, name) ==
    LET lines == ReadLines(file)
    IN  Flatten([i \in 1..Len(lines) |->
            LET cols == Ascending(Occurrences(lines[i], name))
            IN  [k \in 1..Len(cols) |-> UsageLocation(file, i, cols[k], FALSE)]])

\* The files of the reference scan with their matches; the definition file
\* is passed over unless includeDefinition is false.
ScanMatches(allFiles, symbolFile, name, includeDefinition) ==
    Flatten([k \in 1..Len(allFiles) |->
        IF allFiles[k] = symbolFile /\ includeDefinition # "false" THEN <<>>
        ELSE IF ~ExistsSync(allFiles[k]) THEN <<>>
        ELSE FileMatches(allFiles[k], name)])

\* A reference loop that goes on counting after the cap is hit.
RECURSIVE ReferenceScan_CountOn(_, _, _, _)
ReferenceScan_CountOn(matches, usages, totalFound, maxResults) ==
    IF matches = <<>>
    THEN [usages |-> usages, totalFound |-> totalFound, limitReached |-> FALSE]
    ELSE IF Len(usages) >= maxResults
    THEN [usages |-> usages, totalFound |-> totalFound + Len(matches),
          limitReached |-> TRUE]
    ELSE ReferenceScan_CountOn(Tail(matches), Append(usages, Head(matches)),
                               totalFound + 1, maxResults)

\* The reference loop over the matches still to come.
RECURSIVE ReferenceScan(_, _, _, _)
ReferenceScan(matches, usages, totalFound, maxResults) ==
    IF matches = <<>>
    THEN [usages |-> usages, totalFound |-> totalFound, limitReached |-> FALSE]
    ELSE IF Len(usages) >= maxResults
    THEN [usages |-> usages, totalFound |-> totalFound + 1, limitReached |-> TRUE]
    ELSE ReferenceScan(Tail(matches), Append(usages, Head(matches)),
                       totalFound + 1, maxResults)

FindUsagesInput(symbol, type, file, includeDefinition, maxResults) ==
    [symbol |-> symbol, type |-> type, file |-> file,
     includeDefinition |-> includeDefinition, maxResults |-> maxResults]

MaxResults(input) ==
    IF input.maxResults = <<>> \/ input.maxResults = <<0>>
    THEN DefaultMaxResults ELSE input.maxResults[1]

FilePatterns == <<"**/*.ts", "**/*.tsx", "**/*.js", "**/*.jsx">>

\* findUsages after its refresh: resolve the symbol, look for its
\* definition, scan the project.
FindUsagesIn(syms, input) ==
    LET searchResult ==
            SearchIn(syms, SymbolSearchQuery(input.symbol,
                        IF Truthy(input.type) THEN input.type ELSE Undef,
                        input.file, "true", "true", <<1>>))
        symbolInfo == searchResult[1]
        definition ==
            IF input.includeDefinition # "false" /\ ExistsSync(symbolInfo.file)
            THEN DefinitionScan(symbolInfo.file, ReadLines(symbolInfo.file),
                                symbolInfo.symbol, 0)
            ELSE <<>>
        scan == ReferenceScan(
                    ScanMatches(FoundFiles(FilePatterns), symbolInfo.file,
                                symbolInfo.symbol, input.includeDefinition),
                    definition, Len(definition), MaxResults(input))
    IN  IF searchResult = <<>>
        THEN [symbol |-> input.symbol,
              type |-> IF Truthy(input.type) THEN input.type ELSE "unknown",
              usages |-> <<>>, totalFound |-> 0, limitReached |-> FALSE]
        ELSE [symbol |-> symbolInfo.symbol, type |-> symbolInfo.type,
              usages |-> scan.usages, totalFound |-> scan.totalFound,
              limitReached |-> scan.limitReached]

\* A findUsages that answers from the store as it is, without a refresh.
FindUsagesCall_NoRefresh(input) ==
    /\ proc = "ready"
    /\ fu.pc = "idle"
    /\ rr.pc = "idle"
    /\ fu' = [pc |-> "done", input |-> input,
              result |-> IF Truthy(input.symbol) THEN FindUsagesIn(symbols, input)
                         ELSE [symbol |-> "", type |-> "", usages |-> <<>>,
                               totalFound |-> 0, limitReached |-> FALSE]]
    /\ lastOp' = Op("findUsages", input, FALSE, 0)
    /\ UNCHANGED <<symbols, files, lastFullRefresh, persisted, disk, now, proc,
                   rr, loop, rfs>>

\* findUsages is called: an input without a symbol is answered at once, any
\* other starts the incremental refresh.
FindUsagesCall(input) ==
    /\ proc = "ready"
    /\ fu.pc = "idle"
    /\ rr.pc = "idle"
    /\ IF ~Truthy(input.symbol)
       THEN /\ fu' = [pc |-> "done", input |-> input,
                      result |-> [symbol |-> "", type |-> "", usages |-> <<>>,
                                  totalFound |-> 0, limitReached |-> FALSE]]
            /\ lastOp' = Op("findUsages", input, FALSE, 0)
            /\ UNCHANGED <<symbols, files, lastFullRefresh, persisted, disk, now,
                           proc, rr, loop, rfs>>
       ELSE /\ fu' = [pc |-> "refresh", input |-> input, result |-> <<>>]
            /\ RefreshBegin(FALSE, <<>>, "none")

\* The refresh has returned: the rest of findUsages runs to its end.
FindUsagesScan ==
    /\ proc = "ready"
    /\ fu.pc = "refresh"
    /\ rr.pc = "done"
    /\ rr' = IdleRefresh
    /\ fu' = [fu EXCEPT !.pc = "done", !.result = FindUsagesIn(symbols, fu.input)]
    /\ lastOp' = Op("findUsages", fu.input, FALSE, 0)
    /\ UNCHANGED <<symbols, files, lastFullRefresh, persisted, disk, now, proc, loop, rfs>>

\* The caller has the result.
FindUsagesDone ==
    /\ fu.pc = "done"
    /\ fu' = IdleUsages
    /\ lastOp' = NoOp
    /\ UNCHANGED <<symbols, files, lastFullRefresh, persisted, disk, now, proc,
                   rr, loop, rfs>>

(***************************************************************************)
(* Start-up: the state file as the process finds it, and                   *)
(* createAndInitializeRegistry.                                            *)
(***************************************************************************)
\* A state file that is missing, unreadable, not JSON, the JSON value null,
\* or the JSON object {}.
BadFileKinds == {"missing", "unreadable", "badjson", "null", "object"}

BadFile(kind) == [kind |-> kind, symbols |-> <<>>, files |-> <<>>, lastFullRefresh |-> 0]

\* loadRegistryFromDisk: the parsed file, or the empty state when the file is
\* missing or reading or parsing it throws.
LoadRegistryFromDisk(file) ==
    IF file.kind \in {"missing", "unreadable", "badjson"}
    THEN Serialize(<<>>, <<>>, 0)
    ELSE file

\* initializeFromState reads state.symbols first: a TypeError on null.
InitializeFromStateThrows(state) == state.kind = "null"

CreateAndInitializeRegistry(writeOk) ==
    LET state == LoadRegistryFromDisk(persisted)
        syms == IF Len(state.symbols) > 0 THEN state.symbols ELSE <<>>
        fs == IF Len(state.files) > 0 THEN state.files ELSE <<>>
        lfr == IF state.lastFullRefresh > 0 THEN state.lastFullRefresh ELSE 0
    IN  /\ proc = "boot"
        /\ IF InitializeFromStateThrows(state)
           THEN /\ proc' = "crashed"
                /\ lastOp' = Op("createAndInitializeRegistry", persisted.kind, TRUE, 0)
                /\ UNCHANGED <<symbols, files, lastFullRefresh, persisted>>
           ELSE /\ proc' = "ready"
                /\ symbols' = CleanupSymbols(syms, fs)
                /\ files' = CleanupFiles(fs)
                /\ lastFullRefresh' = lfr
                /\ persisted' = PersistToDisk(persisted, symbols', files', lfr, writeOk)
                /\ lastOp' = Op("createAndInitializeRegistry", persisted.kind, ~writeOk, 1)
        /\ UNCHANGED <<disk, now, rr, loop, rfs, fu>>

\* The process ends; the next one starts from the constructor's fields.
Exit ==
    /\ proc \in {"ready", "crashed"}
    /\ proc' = "boot"
    /\ symbols' = <<>>
    /\ files' = <<>>
    /\ lastFullRefresh' = 0
    /\ rr' = IdleRefresh
    /\ loop' = IdleLoop
    /\ fu' = IdleUsages
    /\ rfs' = IdleRegister
    /\ lastOp' = NoOp
    /\ UNCHANGED <<persisted, disk, now>>

\* Something else rewrites or removes the state file.
DamageStateFile(kind) ==
    /\ persisted # BadFile(kind)
    /\ persisted' = BadFile(kind)
    /\ lastOp' = NoOp
    /\ UNCHANGED <<symbols, files, lastFullRefresh, disk, now, proc, rr, loop, rfs, fu>>

(***************************************************************************)
(* The request loop: rl.on('line') calls processMCPRequest and does not    *)
(* wait for the promise it returns.                                        *)
(***************************************************************************)
Lines ==
    {"blank", "invalid-json", "no-tool", "no-input", "unknown-tool",
     "get_doc_for_file", "search_project_symbols"}

\* What processMCPRequest answers without reaching a tool, "" when the line
\* is dispatched to a tool.
EarlyResponse(line) ==
    CASE line = "invalid-json" -> "Invalid JSON"
      [] line \in {"no-tool", "no-input"} -> "Invalid request"
      [] line = "unknown-tool" -> "Unknown tool"
      [] OTHER -> ""

\* The response a tool's body computes, run to its end within the call.
ToolResponse(line) ==
    IF line = "get_doc_for_file"
    THEN (IF IsError(GetDocForFile("a.ts")) THEN GetDocForFile("a.ts").error ELSE "doc")
    ELSE "results"

\* A 'line' event: a blank line is dropped; processMCPRequest runs up to its
\* first await (the tool's promise) or to its end.
OnLine(line) ==
    LET n == Len(loop.reqs) + 1
    IN  /\ proc = "ready"
        /\ n <= MaxLines
        /\ loop' =
             IF line = "blank"
             THEN [loop EXCEPT !.reqs = Append(@, [line |-> line, pc |-> "done", response |-> ""])]
             ELSE IF EarlyResponse(line) # ""
             THEN [loop EXCEPT
                     !.reqs = Append(@, [line |-> line, pc |-> "done",
                                         response |-> EarlyResponse(line)]),
                     !.out = Append(@, [req |-> n, response |-> EarlyResponse(line)])]
             ELSE [loop EXCEPT
                     !.reqs = Append(@, [line |-> line, pc |-> "awaiting",
                                         response |-> ToolResponse(line)])]
        /\ lastOp' = Op("line", line, FALSE, 0)
        /\ UNCHANGED <<symbols, files, lastFullRefresh, persisted, disk, now,
                       proc, rr, fu, rfs>>

\* The continuation of the oldest suspended processMCPRequest: console.log
\* of its response.
Respond ==
    LET waiting == {i \in 1..Len(loop.reqs) : loop.reqs[i].pc = "awaiting"}
        i == FindIndex(waiting)
    IN  /\ proc = "ready"
        /\ waiting # {}
        /\ loop' = [loop EXCEPT
                      !.reqs[i].pc = "done",
                      !.out = Append(@, [req |-> i, response |-> loop.reqs[i].response])]
        /\ lastOp' = Op("respond", "", FALSE, 0)
        /\ UNCHANGED <<symbols, files, lastFullRefresh, persisted, disk, now,
                       proc, rr, fu, rfs>>

(***************************************************************************)
(* The registry used through its operations, starting empty: the state     *)
(* createAndInitializeRegistry leaves when there is no persisted file.     *)
(***************************************************************************)
Init ==
    /\ symbols = <<>>
    /\ files = <<>>
    /\ lastFullRefresh = 0
    /\ persisted = Serialize(<<>>, <<>>, 0)
    /\ disk = [f \in AbsPaths |-> [exists |-> TRUE, mtime |-> 0, content |-> "add"]]
    /\ now = 0
    /\ lastOp = NoOp
    /\ proc = "ready"
    /\ rr = IdleRefresh
    /\ loop = IdleLoop
    /\ fu = IdleUsages
    /\ rfs = IdleRegister

Next ==
    \/ \E s \in SymbolInputs : RegisterSymbol(s, TRUE)
    \/ \E d \in Docs : RegisterFileSymbols(d, Len(FanOut(d)))
    \/ CleanupDeletedFiles(TRUE)
    \/ \E p \in Paths : RemoveFileSymbols(p, TRUE)
    \/ Clear(TRUE)
    \/ \E f \in AbsPaths : DeleteFile(f)
    \/ \E f \in AbsPaths : WriteFile(f, "add")

Spec == Init /\ [][Next]_vars

(***************************************************************************)
(* registerSymbol alone, with every combination of description and parent  *)
(* key absent, undefined or set.                                           *)
(***************************************************************************)
NextMerge ==
    \/ \E s \in MergeInputs : RegisterSymbol(s, TRUE)
    \/ RemoveFileSymbols("/w/b.ts", TRUE)

SpecMerge == Init /\ [][NextMerge]_vars

(***************************************************************************)
(* The file tracker under a moving clock: files are written (their         *)
(* modification time is the time of the write), tracked, scanned and       *)
(* deleted.                                                                *)
(***************************************************************************)
TrackDocs == {DocEmpty("a.ts")}

NextTrack ==
    \/ \E p \in Paths, e \in BOOLEAN : TrackFile(p, e)
    \/ \E d \in TrackDocs : RegisterFileSymbols(d, Len(FanOut(d)))
    \/ FullScan(<<"**/*.ts">>)
    \/ \E f \in AbsPaths : DeleteFile(f)
    \/ \E f \in AbsPaths : WriteFile(f, "add")
    \/ Tick

SpecTrack == Init /\ [][NextTrack]_vars

(***************************************************************************)
(* refreshRegistry over a project whose files change between and during    *)
(* the calls; documents are registered between calls.                      *)
(***************************************************************************)
RefreshDocs == {DocAddSub("/w/a.ts")}

NextRefresh ==
    \/ \E fullScan \in BOOLEAN, throws \in {"none", "cleanup", "discover"} :
          RefreshStart(fullScan, <<"**/*.ts">>, throws)
    \/ \E throws \in BOOLEAN : RefreshFile(throws)
    \/ RefreshReturn
    \/ RefreshDone
    \/ \E d \in RefreshDocs : rr.pc = "idle" /\ RegisterFileSymbols(d, Len(FanOut(d)))
    \/ DeleteFile("/w/b.ts")
    \/ \E c \in Contents : WriteFile("/w/a.ts", c)
    \/ Tick

SpecRefresh == Init /\ [][NextRefresh]_vars

(***************************************************************************)
(* Processes that start, register, end and start again, over a state file  *)
(* that may be damaged in between.                                         *)
(***************************************************************************)
BootDocs == {DocAddSub("/w/a.ts"), DocAdd("/w/b.ts")}

NextBoot ==
    \/ \E w \in BOOLEAN : CreateAndInitializeRegistry(w)
    \/ Exit
    \/ \E k \in BadFileKinds : DamageStateFile(k)
    \/ \E d \in BootDocs : RegisterFileSymbols(d, Len(FanOut(d)))
    \/ \E f \in AbsPaths : DeleteFile(f)
    \/ \E f \in AbsPaths : WriteFile(f, "add")

SpecBoot == Init /\ [][NextBoot]_vars

(***************************************************************************)
(* The request loop fed with lines, over files that come and go.           *)
(***************************************************************************)
NextLoop ==
    \/ \E line \in Lines : OnLine(line)
    \/ Respond
    \/ DeleteFile("/w/a.ts")
    \/ \E c \in Contents : WriteFile("/w/a.ts", c)

SpecLoop == Init /\ [][NextLoop]_vars

(***************************************************************************)
(* search over the stores that registerSymbol, removeFileSymbols and clear *)
(* build.                                                                  *)
(***************************************************************************)
NextSearch ==
    \/ \E symbol \in SearchSymbols : RegisterSymbol(symbol, TRUE)
    \/ RemoveFileSymbols("/w/a.ts", TRUE)
    \/ Clear(TRUE)
    \/ \E q \in Queries : Search(q)

SpecSearch == Init /\ [][NextSearch]_vars

(***************************************************************************)
(* autocompleteSymbol over the stores of the search.                       *)
(***************************************************************************)
NextComplete ==
    \/ \E symbol \in SearchSymbols : RegisterSymbol(symbol, TRUE)
    \/ Clear(TRUE)
    \/ \E input \in AutocompleteInputs : AutocompleteSymbol(input)

SpecComplete == Init /\ [][NextComplete]_vars

(***************************************************************************)
(* getDocForSymbol over a store that a project of some size has filled:    *)
(* the process starts with the store loaded.                               *)
(***************************************************************************)
InitRelated ==
    /\ symbols \in RelatedStores
    /\ files = <<>>
    /\ lastFullRefresh = 0
    /\ persisted = Serialize(symbols, <<>>, 0)
    /\ disk = [f \in AbsPaths |-> [exists |-> TRUE, mtime |-> 0, content |-> "add"]]
    /\ now = 0
    /\ lastOp = NoOp
    /\ proc = "ready"
    /\ rr = IdleRefresh
    /\ loop = IdleLoop
    /\ fu = IdleUsages
    /\ rfs = IdleRegister

NextRelated ==
    \/ \E input \in RelatedInputs : GetDocForSymbol(input)
    \/ \E f \in AbsPaths : RemoveFileSymbols(f, TRUE)
    \/ Clear(TRUE)

SpecRelated == InitRelated /\ [][NextRelated]_vars

(***************************************************************************)
(* searchProjectSymbols over the stores of the search.                     *)
(***************************************************************************)
NextProject ==
    \/ \E symbol \in SearchSymbols : RegisterSymbol(symbol, TRUE)
    \/ Clear(TRUE)
    \/ \E input \in ProjectInputs : SearchProjectSymbols(input)

SpecProject == Init /\ [][NextProject]_vars

(***************************************************************************)
(* The tracker over files that are deleted and written again while the     *)
(* clock moves.                                                            *)
(***************************************************************************)
NextDeleted ==
    \/ \E e \in BOOLEAN : TrackFile("/w/a.ts", e)
    \/ RegisterFileSymbols(DocEmpty("/w/b.ts"), 0)
    \/ FullScan(<<"**/*.ts">>)
    \/ CleanupDeletedFiles(TRUE)
    \/ RemoveFileSymbols("/w/a.ts", TRUE)
    \/ Clear(TRUE)
    \/ ListFilesNeedingRefresh
    \/ DeleteFile("/w/a.ts")
    \/ WriteFile("/w/a.ts", "add")
    \/ Tick

SpecDeleted == Init /\ [][NextDeleted]_vars

(***************************************************************************)
(* findUsages under a moving clock: /w/a.ts is written after it was        *)
(* registered, so the refresh of the call has a file to go through, and    *)
(* files change while the call waits.                                      *)
(***************************************************************************)
StaleInputs ==
    {FindUsagesInput("add", Absent, Absent, Absent, <<>>),
     FindUsagesInput(Absent, Absent, Absent, Absent, <<>>)}

NextStale ==
    \/ \E input \in StaleInputs : FindUsagesCall(input)
    \/ RefreshFile(FALSE)
    \/ RefreshReturn
    \/ FindUsagesScan
    \/ FindUsagesDone
    \/ rr.pc = "idle" /\ RegisterFileSymbols(DocAdd("/w/a.ts"), 1)
    \/ \E c \in {"add", "addsub"} : WriteFile("/w/a.ts", c)
    \/ DeleteFile("/w/b.ts")
    \/ Tick

SpecStale == Init /\ [][NextStale]_vars

(***************************************************************************)
(* The run of test-debug-registry: documents are registered, the store is  *)
(* searched and listed, and cleared.                                       *)
(***************************************************************************)
FanOutDocs == DocsFor("/w/a.ts") \cup {DocAdd("/w/b.ts")}

NextFanOut ==
    \/ \E d \in FanOutDocs : RegisterFileSymbols(d, Len(FanOut(d)))
    \/ Search(SymbolSearchQuery("add", Undef, Absent, "false", Absent, <<>>))
    \/ GetAllSymbols
    \/ Clear(TRUE)

SpecFanOut == Init /\ [][NextFanOut]_vars

(***************************************************************************)
(* findUsages over a project of two files whose texts change; /w/a.ts is   *)
(* registered with what the parser finds in it.  The clock stands still,   *)
(* so no tracked file is stale and the loop of the refresh is empty.       *)
(***************************************************************************)
UsageContents == {"add", "addsub", "use", "const"}

UsageInputs ==
    {FindUsagesInput("add", Absent, Absent, includeDefinition, maxResults) :
        includeDefinition \in {Absent, "false"},
        maxResults \in {<<>>, <<1>>, <<2>>}}
    \cup {FindUsagesInput(Absent, Absent, Absent, Absent, <<1>>),
          FindUsagesInput("sub", "function", Absent, Absent, <<1>>)}

NextUsages ==
    \/ \E input \in UsageInputs : FindUsagesCall(input)
    \/ RefreshReturn
    \/ FindUsagesScan
    \/ FindUsagesDone
    \/ /\ rr.pc = "idle"
       /\ ~IsError(GetDocForFile("/w/a.ts"))
       /\ RegisterFileSymbols(GetDocForFile("/w/a.ts"), Len(FanOut(GetDocForFile("/w/a.ts"))))
    \/ \E f \in AbsPaths, c \in UsageContents : WriteFile(f, c)
    \/ \E f \in AbsPaths : DeleteFile(f)

SpecUsages == Init /\ [][NextUsages]_vars

(***************************************************************************)
(* Persistence: every operation that changes the registry, with writes of  *)
(* the state file that may fail.                                           *)
(***************************************************************************)
PersistDocs == {DocEmpty("/w/a.ts"), DocAddSub("/w/a.ts")}

NextPersist ==
    \/ \E w \in BOOLEAN : RegisterSymbol(SymbolInput("d1", Absent), w)
    \/ \E d \in PersistDocs, k \in 0..MaxSymbols : RegisterFileSymbols(d, k)
    \/ \E w \in BOOLEAN : CleanupDeletedFiles(w)
    \/ \E w \in BOOLEAN : RemoveFileSymbols("/w/a.ts", w)
    \/ FullScan(<<"**/*.ts">>)
    \/ \E w \in BOOLEAN : Clear(w)
    \/ \E f \in AbsPaths : DeleteFile(f)
    \/ \E f \in AbsPaths : WriteFile(f, "add")

SpecPersist == Init /\ [][NextPersist]_vars

(***************************************************************************)
(* Requests next to a registration: a document is registered statement by  *)
(* statement while searches, listings and usage lookups (with the refresh  *)
(* they await) take every turn the event loop gives them.                  *)
(***************************************************************************)
AtomicDocs == {DocEmpty("/w/a.ts"), DocAdd("/w/a.ts"), DocAddSub("/w/a.ts")}

NextAtomic ==
    \/ \E d \in AtomicDocs : Turn /\ RegisterFileSymbolsBegin(d)
    \/ RegisterFileSymbolsInsert(TRUE)
    \/ RegisterFileSymbolsEnd
    \/ Turn /\ GetAllSymbols
    \/ Turn /\ Search(SymbolSearchQuery("add", Absent, Absent, Absent, "true", <<>>))
    \/ Turn /\ FindUsagesCall(FindUsagesInput("add", Absent, Absent, Absent, <<>>))
    \/ Turn /\ RefreshFile(FALSE)
    \/ Turn /\ RefreshReturn
    \/ Turn /\ FindUsagesScan
    \/ Turn /\ FindUsagesDone
    \/ WriteFile("/w/a.ts", "addsub")
    \/ Tick

SpecAtomic == Init /\ [][NextAtomic]_vars

(***************************************************************************)
(* Properties of the store.                                                *)
(***************************************************************************)
\* The identity tuple (name, kind, sourceFile, parent) of a stored symbol.
IdentityTuple(s) == <<s.symbol, s.type, s.file, Val(s.parentSymbol)>>

\* The stored symbols that belong to the file with absolute path f.
SymbolsOf(f) == SelectSeq(symbols, LAMBDA s : Resolve(s.file) = f)

\* The symbols a document yields (a name the document lists twice is one
\* symbol).
Derived(fileDoc) == RegisterAllIn(<<>>, FanOut(fileDoc))

\* C1: starting from an empty registry, after any sequence of registerSymbol,
\* registerFileSymbols, cleanupDeletedFiles, removeFileSymbols and clear, no
\* two stored symbols have the same identity tuple.
C1_NoDuplicateIdentity ==
    \A i, j \in 1..Len(symbols) :
        i # j => IdentityTuple(symbols[i]) # IdentityTuple(symbols[j])

\* A registration has met a stored symbol of its identity (the stored parent
\* is undefined and the description is that of the input without a parent
\* key), next to a symbol that differs from it in the parent only.
C1_Witness ==
    /\ lastOp.op = "registerSymbol"
    /\ lastOp.prev # <<>>
    /\ \E i, j \in 1..Len(symbols) :
          /\ symbols[i].symbol = symbols[j].symbol
          /\ symbols[i].file = symbols[j].file
          /\ symbols[i].parentSymbol = Undef
          /\ symbols[i].description = "d1"
          /\ symbols[j].parentSymbol = "Auth"

\* C2: after registerFileSymbols(D1) followed by registerFileSymbols(D2) for
\* the same file F, the stored symbols of F are exactly the symbols derived
\* from D2; none that only D1 yielded remains.
C2_ExhaustiveReplace ==
    lastOp.op = "registerFileSymbols" =>
        SymbolsOf(Resolve(lastOp.arg.filePath)) = Derived(lastOp.arg)

\* C4: once a file registered through registerFileSymbols is deleted from
\* disk and cleanupDeletedFiles has run, no stored symbol belongs to it and
\* its tracking record is still there, with exists = false.
C4_DeletedFileCleanup ==
    lastOp.op = "cleanupDeletedFiles" =>
        \A i \in 1..Len(files) :
            ~ExistsSync(files[i].path) =>
                /\ files[i].exists = FALSE
                /\ SymbolsOf(files[i].path) = <<>>

\* Whether this step is registerSymbol(s) meeting the stored symbols[i].
MergesInto(s, i) ==
    /\ RegisterSymbol(s, TRUE)
    /\ IdentityTuple(symbols[i]) = IdentityTuple(s)

\* C3 as stated: registerSymbol(s) on a store holding s's identity leaves the
\* number of symbols unchanged, and each field of the entry is the incoming
\* value when that is not undefined and the stored value otherwise.
C3_MergeDefinedWins ==
    [][\A s \in MergeInputs : \A i \in 1..Len(symbols) :
          MergesInto(s, i) =>
             /\ Len(symbols') = Len(symbols)
             /\ \A k \in SymbolFields :
                   Val(symbols'[i][k]) =
                      IF Val(s[k]) # Undef THEN s[k] ELSE Val(symbols[i][k])]_vars

\* C3 amended: each field of the entry is the incoming value when the
\* incoming object has the key, even with the value undefined, and the
\* stored value when the key is absent.
C3_MergeKeysWin ==
    [][\A s \in MergeInputs : \A i \in 1..Len(symbols) :
          MergesInto(s, i) =>
             /\ Len(symbols') = Len(symbols)
             /\ \A j \in 1..Len(symbols) : j # i => symbols'[j] = symbols[j]
             /\ \A k \in SymbolFields :
                   Val(symbols'[i][k]) =
                      IF s[k] # Absent THEN Val(s[k]) ELSE Val(symbols[i][k])]_vars

\* A registration with description: undefined has met an entry that had a
\* description, and one with a description has replaced another.
C3_Witness ==
    /\ lastOp.op = "registerSymbol"
    /\ lastOp.prev # <<>>
    /\ lastOp.prev[1].description = "d1"
    /\ lastOp.arg.description = Undef
    /\ Len(symbols) = 2
    /\ \E i \in 1..Len(symbols) :
          /\ IdentityTuple(symbols[i]) = IdentityTuple(lastOp.arg)
          /\ symbols[i].description = Undef

(***************************************************************************)
(* Properties of the file tracker and of persistence.                      *)
(***************************************************************************)
\* C5: for a file on disk, fileNeedsRefresh is false right after trackFile
\* (also when registerFileSymbols tracks it) while its modification time is
\* unchanged, and it is true once the modification time is past the
\* recorded lastParsed.
C5_Staleness ==
    /\ (lastOp.op = "trackFile" /\ ExistsSync(lastOp.arg))
          => ~FileNeedsRefresh(lastOp.arg)
    /\ (lastOp.op = "registerFileSymbols" /\ ExistsSync(lastOp.arg.filePath))
          => ~FileNeedsRefresh(lastOp.arg.filePath)
    /\ \A i \in 1..Len(files) :
          (ExistsSync(files[i].path) /\ MtimeMs(files[i].path) > files[i].lastParsed)
             => FileNeedsRefresh(files[i].path)

\* /w/a.ts was written after it was first tracked and has just been tracked
\* again, so it needs no refresh; /w/b.ts was written after it was tracked
\* and needs one.
C5_Witness ==
    /\ lastOp.op = "trackFile"
    /\ Resolve(lastOp.arg) = "/w/a.ts"
    /\ ExistsSync("/w/a.ts")
    /\ MtimeMs("/w/a.ts") > 0
    /\ ~FileNeedsRefresh("/w/a.ts")
    /\ \E i \in 1..Len(files) :
          /\ files[i].path = "/w/b.ts"
          /\ MtimeMs("/w/b.ts") > files[i].lastParsed
    /\ FileNeedsRefresh("/w/b.ts")

MutatingOps ==
    {"registerSymbol", "registerFileSymbols", "cleanupDeletedFiles",
     "removeFileSymbols", "fullScan", "clear"}

\* C7: after every mutating registry operation (registerSymbol,
\* registerFileSymbols also with a document that yields no symbols,
\* cleanupDeletedFiles, removeFileSymbols, fullScan, clear) during which no
\* write failed, the persisted state equals the in-memory state.
C7_WriteThrough ==
    (lastOp.op \in MutatingOps /\ ~lastOp.failed) =>
        persisted = Serialize(symbols, files, lastFullRefresh)

(***************************************************************************)
(* Properties of refreshRegistry.                                          *)
(***************************************************************************)
\* C6: after refreshRegistry returns refreshed: true with no file system
\* change during the call, every candidate that is on disk and that the
\* parser gave a document for has the symbols derived from that document and
\* does not need a refresh, and the next incremental refresh has no
\* candidates.
C6_RefreshReregisters ==
    (rr.pc = "done" /\ rr.refreshed /\ ~rr.fsChanged) =>
        /\ \A f \in rr.parsed :
              /\ SymbolsOf(f) = Derived(GetDocForFile(f))
              /\ ~FileNeedsRefresh(f)
        /\ GetFilesNeedingRefresh = <<>>

\* C11: when the parser answers with an error payload for a candidate, the
\* refresh goes on to the remaining candidates and returns refreshed: true,
\* and afterwards the store holds no symbol of the file that failed to
\* parse.
C11_FailedParsePurged ==
    (rr.pc = "done" /\ rr.threwAt = "none" /\ ~rr.fsChanged) =>
        /\ rr.refreshed
        /\ rr.idx = Len(rr.filesToProcess) + 1
        /\ \A f \in rr.failed : SymbolsOf(f) = <<>>

\* C10: a call of refreshRegistry that ended has not rejected; when a step
\* threw (cleanup, discovery, parsing or removal) the result is refreshed:
\* false with an error message, and otherwise refreshed: true without one.
C10_RefreshNeverThrows ==
    rr.pc = "done" =>
        /\ ~rr.rejected
        /\ rr.threwAt # "none" => (~rr.refreshed /\ rr.error # Absent)
        /\ rr.threwAt = "none" => (rr.refreshed /\ rr.error = Absent)

\* A refresh that had parsed one file has ended on a throw of
\* removeFileSymbols for the next.
C10_Witness ==
    /\ rr.pc = "done"
    /\ rr.threwAt = "remove"
    /\ rr.parsed # {}
    /\ ~rr.refreshed
    /\ rr.error # Absent

(***************************************************************************)
(* Properties of start-up and of the request loop.                         *)
(***************************************************************************)
\* C8: requests do not overlap: an earlier request is done, its response
\* written, before a later one is taken up.
C8_NoOverlap ==
    \A i, j \in 1..Len(loop.reqs) : i < j => loop.reqs[i].pc = "done"

\* C9: initialization never throws, and when the state file is missing,
\* unreadable, not JSON or JSON of the wrong shape, the registry starts with
\* no symbols and no tracking records.
C9_InitNeverThrows ==
    /\ proc # "crashed"
    /\ (lastOp.op = "createAndInitializeRegistry" /\ lastOp.arg \in BadFileKinds)
          => (proc = "ready" /\ symbols = <<>> /\ files = <<>>)

(***************************************************************************)
(* Properties of search.                                                   *)
(***************************************************************************)
\* Whether the stored symbol passes the four filters of the query as the
\* specification words them.
Passes(symbol, q) ==
    /\ q.type \in {Absent, Undef} \/ symbol.type = q.type
    /\ q.file \in {Absent, Undef, ""}
          \/ \E i \in 1..Len(symbol.file) : \E j \in i..Len(symbol.file) :
                SubSeq(symbol.file, i, j) = q.file
    /\ q.includePrivate = "true"
          \/ /\ SubSeq(symbol.symbol, 1, 1) \notin {"_", "#"}
             /\ symbol.metadata # MetaVisibility("private")
    /\ IF q.exactMatch = "true"
       THEN symbol.symbol = q.query
       ELSE \/ q.query = ""
            \/ \E i \in 1..Len(symbol.symbol) : \E j \in i..Len(symbol.symbol) :
                  ToLowerCase(SubSeq(symbol.symbol, i, j)) = ToLowerCase(q.query)

\* The members of a sequence.
Range(seq) == {seq[i] : i \in 1..Len(seq)}

\* C12: what search returns when nothing is cut (limit 0) is exactly the
\* stored symbols that pass the kind, file, privacy and name filters; with a
\* limit, it returns only such symbols; an empty store or no match gives an
\* empty result.
C12_SearchFilters ==
    lastOp.op = "search" =>
        /\ Range(lastOp.result) \subseteq {s \in Range(symbols) : Passes(s, lastOp.arg)}
        /\ Limit(lastOp.arg) <= 0 =>
              Range(lastOp.result) = {s \in Range(symbols) : Passes(s, lastOp.arg)}
        /\ Len(lastOp.result) = Cardinality(Range(lastOp.result))

\* An uncut exact search over three symbols has kept one and dropped a
\* private one and one whose name only contains the query.
C12_Witness ==
    /\ lastOp.op = "search"
    /\ Limit(lastOp.arg) <= 0
    /\ Len(symbols) = 3
    /\ Len(lastOp.result) = 1
    /\ \E s \in Range(symbols) : Visibility(s) = "private"
    /\ \E s \in Range(symbols) : s.symbol = "padding"
    /\ lastOp.arg.exactMatch = "true"

\* The rank key of a symbol for a query: exact-name match first, exported
\* first, then the kind priority (unknown kinds last).
RankKey(s, q) ==
    <<IF s.symbol = q.query THEN 0 ELSE 1,
      IF s.exported = "true" THEN 0 ELSE 1,
      CASE s.type = "function" -> 1 [] s.type = "class" -> 2
        [] s.type = "route" -> 3 [] s.type = "method" -> 4
        [] s.type = "interface" -> 5 [] s.type = "type" -> 6
        [] s.type = "property" -> 7 [] s.type = "variable" -> 8
        [] OTHER -> 9>>

KeyLess(k1, k2) ==
    \/ k1[1] < k2[1]
    \/ k1[1] = k2[1] /\ k1[2] < k2[2]
    \/ k1[1] = k2[1] /\ k1[2] = k2[2] /\ k1[3] < k2[3]

\* Where a stored symbol stands in the store.
StoreIndex(s) == CHOOSE i \in 1..Len(symbols) : symbols[i] = s

\* C13: of two returned symbols, the one listed first does not have the
\* greater rank key, and two with equal keys are listed in store order.
C13_Ranked ==
    lastOp.op = "search" =>
        \A i, j \in 1..Len(lastOp.result) :
            i < j =>
                LET a == lastOp.result[i]
                    b == lastOp.result[j]
                IN  /\ ~KeyLess(RankKey(b, lastOp.arg), RankKey(a, lastOp.arg))
                    /\ RankKey(a, lastOp.arg) = RankKey(b, lastOp.arg)
                          => StoreIndex(a) < StoreIndex(b)

\* A search has returned three symbols: the first stored last, two of them
\* with equal keys, and an exported one before a non-exported one of a kind
\* with a smaller priority number.
C13_Witness ==
    /\ lastOp.op = "search"
    /\ Len(lastOp.result) = 3
    /\ StoreIndex(lastOp.result[1]) = 3
    /\ RankKey(lastOp.result[2], lastOp.arg) = RankKey(lastOp.result[3], lastOp.arg)
    /\ lastOp.result[1].exported = "true"
    /\ lastOp.result[1].type = "ns"

\* C14: with limit k > 0 and n > k matches search returns k symbols, none of
\* which ranks behind a match left out; with n <= k, or a limit of 0 or
\* less, it returns all n matches.
C14_Truncation ==
    lastOp.op = "search" =>
        LET matches == {s \in Range(symbols) : Passes(s, lastOp.arg)}
            n == Cardinality(matches)
            k == Limit(lastOp.arg)
        IN  /\ Len(lastOp.result) = IF k > 0 /\ n > k THEN k ELSE n
            /\ \A r \in Range(lastOp.result) : \A m \in matches \ Range(lastOp.result) :
                  ~KeyLess(RankKey(m, lastOp.arg), RankKey(r, lastOp.arg))

\* A search with limit 1 over three matches has returned the one stored
\* last.
C14_Witness ==
    /\ lastOp.op = "search"
    /\ Limit(lastOp.arg) = 1
    /\ Cardinality({s \in Range(symbols) : Passes(s, lastOp.arg)}) = 3
    /\ Len(lastOp.result) = 1
    /\ StoreIndex(lastOp.result[1]) = 3

(***************************************************************************)
(* Properties of the fan-out of registerFileSymbols.                       *)
(***************************************************************************)
\* "(p1, p2)" followed by ": ReturnType" when there is a return type.
Callable(d) ==
    LET list == IF Len(d.params) = 0 THEN ""
                ELSE IF Len(d.params) = 1 THEN d.params[1]
                ELSE d.params[1] \o ", " \o d.params[2]
    IN  IF d.returnType \in {Absent, Undef, ""}
        THEN "(" \o list \o ")"
        ELSE "(" \o list \o "): " \o d.returnType

Typed(d) == IF d.type \in {Absent, Undef, ""} THEN "" ELSE ": " \o d.type

Element(name, kind, parent, exported, signature) ==
    [symbol |-> name, type |-> kind, parentSymbol |-> parent,
     exported |-> Val(exported), signature |-> signature]

\* The symbols the specification expects of a document, one per element.
Elements(D) ==
    {Element(f.name, "function", Undef, f.exported, Callable(f)) :
        f \in Range(D.functions)}
    \cup UNION {
        {Element(c.name, "class", Undef, c.exported, Undef)}
        \cup {Element(x.name, "method", c.name, c.exported, Callable(x)) :
                x \in Range(c.methods)}
        \cup {Element(x.name, "property", c.name, c.exported, Typed(x)) :
                x \in Range(c.properties)} : c \in Range(D.classes)}
    \cup UNION {
        {Element(c.name, "interface", Undef, c.exported, Undef)}
        \cup {Element(x.name, "method", c.name, c.exported, Callable(x)) :
                x \in Range(c.methods)}
        \cup {Element(x.name, "property", c.name, c.exported, Typed(x)) :
                x \in Range(c.properties)} : c \in Range(D.interfaces)}
    \cup {Element(t.name, "type", Undef, t.exported, ": " \o t.type) :
            t \in Range(D.typeAliases)}
    \cup {Element(r.method \o " " \o r.path, "route", Undef, Undef, Undef) :
            r \in Range(D.routes)}

ElementId(e) == <<e.symbol, e.type, e.parentSymbol>>

\* What a stored symbol shows of the fields an element fixes.
AsElement(s) ==
    Element(s.symbol, s.type, Val(s.parentSymbol), s.exported, Val(s.signature))

\* C15: after registerFileSymbols(D) the file's stored symbols are one per
\* element of D (elements of one identity are one symbol), each with the
\* element's name, kind, parent, exported flag and signature; with the one
\* function add(a, b): number stored, getAllSymbols has length 1 and a
\* search for "add" returns it with signature "(a, b): number" and exported
\* true; after clear the store is empty.
C15_FanOut ==
    /\ lastOp.op = "registerFileSymbols" =>
          LET D == lastOp.arg
              stored == Range(SymbolsOf(D.filePath))
          IN  /\ {ElementId(AsElement(s)) : s \in stored} = {ElementId(e) : e \in Elements(D)}
              /\ Cardinality(stored) = Cardinality({ElementId(e) : e \in Elements(D)})
              /\ \A e \in Elements(D) :
                    (\A e2 \in Elements(D) : ElementId(e2) = ElementId(e) => e2 = e)
                       => \E s \in stored : AsElement(s) = e
    /\ (lastOp.op = "getAllSymbols" /\ symbols = Derived(DocAdd("/w/a.ts")))
          => Len(lastOp.result) = 1
    /\ (lastOp.op = "search" /\ symbols = Derived(DocAdd("/w/a.ts")))
          => /\ Len(lastOp.result) = 1
             /\ lastOp.result[1].signature = "(a, b): number"
             /\ lastOp.result[1].exported = "true"
    /\ lastOp.op = "clear" => Len(symbols) = 0

\* The class document has just been registered: a class, its method and its
\* property are stored.
C15_Witness ==
    /\ lastOp.op = "registerFileSymbols"
    /\ lastOp.arg = DocClass("/w/a.ts")
    /\ Len(SymbolsOf("/w/a.ts")) = 3
    /\ \E s \in Range(symbols) : s.type = "method" /\ s.parentSymbol = "Auth"

(***************************************************************************)
(* findUsages.                                                             *)
(***************************************************************************)
\* The occurrences of the symbol of the call just answered, over every file
\* of the project.
OccurrencesInProject ==
    Len(ScanMatches(FoundFiles(FilePatterns), "", fu.input.symbol, "false"))

\* A call of findUsages with a maxResults of its own has just been answered
\* for a symbol the store holds.
UsagesAnswered ==
    /\ lastOp.op = "findUsages"
    /\ fu.pc = "done"
    /\ Truthy(fu.input.symbol)
    /\ fu.input.maxResults # <<>>
    /\ fu.result.type # "unknown"

\* C16: a findUsages call with maxResults = m >= 1 never returns more than m
\* usages, the definition record included, and when the symbol occurs more
\* than m times in the scanned files it returns exactly m usages with
\* limitReached = true.
C16_UsagesCapped ==
    UsagesAnswered =>
        /\ Len(fu.result.usages) <= fu.input.maxResults[1]
        /\ OccurrencesInProject > fu.input.maxResults[1] =>
              /\ Len(fu.result.usages) = fu.input.maxResults[1]
              /\ fu.result.limitReached

(***************************************************************************)
(* fullScan and removeFileSymbols.                                         *)
(***************************************************************************)
\* C19: fullScan returns every file that matches the patterns, leaves the
\* records of the files already tracked as they are, and adds for each file
\* not yet tracked a record flagged for parsing: the file is reported as
\* needing a refresh.
C19_FullScanFlagsNew ==
    [][FullScan(<<"**/*.ts">>) =>
          /\ lastOp'.result = FoundFiles(<<"**/*.ts">>)
          /\ SubSeq(files', 1, Len(files)) = files
          /\ \A i \in (Len(files) + 1)..Len(files') :
                /\ files'[i].path \in Range(FoundFiles(<<"**/*.ts">>))
                /\ FileNeedsRefreshIn(files', files'[i].path)]_vars

\* C20: removeFileSymbols(p) leaves no symbol whose file is the resolved p,
\* keeps the symbols of every other file in their order, sets the exists
\* flag of the record of p to false exactly when the file is not on disk,
\* changes no other field of any record, and writes the state.
C20_RemoveFileSymbolsFrame ==
    [][\A p \in Paths : RemoveFileSymbols(p, TRUE) =>
          /\ \A i \in 1..Len(symbols') : symbols'[i].file # Resolve(p)
          /\ SelectSeq(symbols', LAMBDA s : s.file # Resolve(p))
                = SelectSeq(symbols, LAMBDA s : s.file # Resolve(p))
          /\ Len(files') = Len(files)
          /\ \A i \in 1..Len(files) :
                /\ files'[i].path = files[i].path
                /\ files'[i].lastParsed = files[i].lastParsed
                /\ files'[i].lastModified = files[i].lastModified
                /\ files'[i].exists =
                      IF files[i].path = Resolve(p) /\ ~ExistsSync(Resolve(p))
                      THEN FALSE ELSE files[i].exists
          /\ persisted' = Serialize(symbols', files', lastFullRefresh')]_vars

\* removeFileSymbols has just run for /w/a.ts, which is tracked and gone
\* from disk: its record says so, no symbol of it is left and the symbol of
\* /w/b.ts is still stored.
C20_Witness ==
    /\ lastOp.op = "removeFileSymbols"
    /\ Resolve(lastOp.arg) = "/w/a.ts"
    /\ ~ExistsSync("/w/a.ts")
    /\ \E i \in 1..Len(files) : files[i].path = "/w/a.ts" /\ ~files[i].exists
    /\ \E i \in 1..Len(files) : files[i].path = "/w/b.ts" /\ files[i].exists
    /\ \A i \in 1..Len(symbols) : symbols[i].file # "/w/a.ts"
    /\ \E i \in 1..Len(symbols) : symbols[i].file = "/w/b.ts"
    /\ persisted = Serialize(symbols, files, lastFullRefresh)

(***************************************************************************)
(* autocompleteSymbol.                                                     *)
(***************************************************************************)
\* autocompleteSymbol has just answered a call with a prefix.
Completed == lastOp.op = "autocompleteSymbol" /\ Truthy(lastOp.arg.prefix)

\* The non-exact search for the prefix of the call just answered, cut at
\* the limit asked for, 10 when none was.
PrefixSearch ==
    SearchIn(symbols,
        SymbolSearchQuery(lastOp.arg.prefix, CompletionType(lastOp.arg.type),
            Absent, "false", lastOp.arg.includePrivate,
            IF lastOp.arg.limit = <<>> THEN <<AutocompleteLimit>>
            ELSE lastOp.arg.limit))

\* C18: the completions of autocompleteSymbol(prefix) are the results of the
\* non-exact search for the prefix, cut at the limit asked for (10 when none
\* is given).
C18_CompletionsAreSearch ==
    Completed /\ lastOp.arg.limit # <<0>> =>
        lastOp.result = [i \in 1..Len(PrefixSearch) |-> Completion(PrefixSearch[i])]

\* C18: the completions are those results, and the name of every completion
\* starts with the prefix.
C18_PrefixCompletions ==
    /\ C18_CompletionsAreSearch
    /\ Completed =>
          \A i \in 1..Len(lastOp.result) :
              StartsWith(lastOp.result[i].symbol, lastOp.arg.prefix)

(***************************************************************************)
(* getDocForSymbol.                                                        *)
(***************************************************************************)
\* The related symbols of the answer just given.
Related ==
    IF lastOp.result.symbol[1].relatedSymbols = <<>> THEN <<>>
    ELSE lastOp.result.symbol[1].relatedSymbols[1]

\* C17: getDocForSymbol on a class or interface T with includeRelated not
\* false returns as 'child' related symbols every stored symbol whose parent
\* is T's name, private ones included, whatever the size of the store.
C17_AllChildren ==
    (/\ lastOp.op = "getDocForSymbol"
     /\ lastOp.arg.includeRelated # "false"
     /\ lastOp.result.found
     /\ lastOp.result.symbol[1].type \in {"class", "interface"}) =>
        \A i \in 1..Len(symbols) :
            symbols[i].parentSymbol = lastOp.result.symbol[1].name =>
                \E j \in 1..Len(Related) :
                    Related[j] = RelatedSymbolInfo(symbols[i], "child")

(***************************************************************************)
(* registerFileSymbols: paths, writes, frame.                              *)
(***************************************************************************)
\* C21: after registerFileSymbols, whatever the form of the document's
\* path, the file of every symbol of the document is an absolute path and
\* the path of a tracking record.
C21_AbsoluteSourceFile ==
    lastOp.op = "registerFileSymbols" =>
        \A i \in 1..Len(symbols) :
            symbols[i].file \in {lastOp.arg.filePath, Resolve(lastOp.arg.filePath)} =>
                /\ symbols[i].file \in AbsPaths
                /\ \E j \in 1..Len(files) : files[j].path = symbols[i].file

\* C22: one registerFileSymbols call writes the state exactly once, however
\* many symbols the document yields, none included.
C22_WrittenOnce ==
    lastOp.op = "registerFileSymbols" => lastOp.writes = 1

\* The symbols of the files other than the file of path p, in store order.
SymbolsElsewhere(syms, p) ==
    SelectSeq(syms, LAMBDA s : Resolve(s.file) # Resolve(p))

\* The tracking records of the files other than the file of path p.
RecordsElsewhere(fs, p) ==
    SelectSeq(fs, LAMBDA f : f.path # Resolve(p))

\* The symbols and the records of the files that are on disk.
SymbolsOnDisk(syms) == SelectSeq(syms, LAMBDA s : ExistsSync(Resolve(s.file)))

RecordsOnDisk(fs) == SelectSeq(fs, LAMBDA f : ExistsSync(f.path))

\* C28: registerFileSymbols for a file leaves the symbols and the tracking
\* records of every other file as they are, and cleanupDeletedFiles leaves
\* the symbols and the records of the files on disk as they are.
C28_Frame ==
    [][/\ lastOp'.op = "registerFileSymbols" =>
             /\ SymbolsElsewhere(symbols', lastOp'.arg.filePath)
                   = SymbolsElsewhere(symbols, lastOp'.arg.filePath)
             /\ RecordsElsewhere(files', lastOp'.arg.filePath)
                   = RecordsElsewhere(files, lastOp'.arg.filePath)
       /\ lastOp'.op = "cleanupDeletedFiles" =>
             /\ SymbolsOnDisk(symbols') = SymbolsOnDisk(symbols)
             /\ RecordsOnDisk(files') = RecordsOnDisk(files)]_vars

\* registerFileSymbols has just stored the symbols of /w/a.ts next to a
\* symbol and a tracking record of /w/b.ts.
C28_Witness ==
    /\ lastOp.op = "registerFileSymbols"
    /\ Resolve(lastOp.arg.filePath) = "/w/a.ts"
    /\ \E i \in 1..Len(symbols) : symbols[i].file = lastOp.arg.filePath
    /\ \E i \in 1..Len(symbols) : symbols[i].file = "/w/b.ts"
    /\ \E i \in 1..Len(files) : files[i].path = "/w/b.ts"
    /\ \E i \in 1..Len(files) : files[i].path = "/w/a.ts"

(***************************************************************************)
(* searchProjectSymbols.                                                   *)
(***************************************************************************)
\* C27: every symbol that searchProjectSymbols returns for a request with a
\* type has that kind, so a type that names no stored kind returns no
\* symbol at all.
C27_KindFilter ==
    (lastOp.op = "searchProjectSymbols" /\ Truthy(lastOp.arg.type)) =>
        \A i \in 1..Len(lastOp.result) :
            lastOp.result[i].type = ToLowerCase(lastOp.arg.type)

(***************************************************************************)
(* Tracking records of deleted files.                                      *)
(***************************************************************************)
\* C29: a file whose tracking record has exists = false is not in the list
\* of getFilesNeedingRefresh, also when it is back on disk with a newer
\* modification time; only trackFile and registerFileSymbols set the flag
\* back; and only clear removes a tracking record.
C29_DeletedStaysOut ==
    [][/\ lastOp'.op = "getFilesNeedingRefresh" =>
             \A i \in 1..Len(files') :
                 ~files'[i].exists => files'[i].path \notin Range(lastOp'.result)
       /\ \A i \in 1..Len(files) :
             (i <= Len(files') /\ ~files[i].exists /\ files'[i].exists) =>
                 lastOp'.op \in {"trackFile", "registerFileSymbols"}
       /\ lastOp'.op # "clear" =>
             /\ Len(files') >= Len(files)
             /\ \A i \in 1..Len(files) : files'[i].path = files[i].path]_vars

\* getFilesNeedingRefresh has just answered while /w/a.ts, marked as gone,
\* is back on disk with a modification time after its last parse.
C29_Witness ==
    /\ lastOp.op = "getFilesNeedingRefresh"
    /\ \E i \in 1..Len(files) :
          /\ files[i].path = "/w/a.ts"
          /\ ~files[i].exists
          /\ ExistsSync("/w/a.ts")
          /\ MtimeMs("/w/a.ts") > files[i].lastParsed
    /\ FileNeedsRefresh("/w/a.ts")
    /\ "/w/a.ts" \notin Range(lastOp.result)

(***************************************************************************)
(* findUsages: the definition record, the counter, the skipped file.       *)
(***************************************************************************)
\* The symbols the call just answered resolved its input to.
Resolved ==
    SearchIn(symbols, SymbolSearchQuery(fu.input.symbol,
                IF Truthy(fu.input.type) THEN fu.input.type ELSE Undef,
                fu.input.file, "true", "true", <<1>>))

\* findUsages has just answered for a symbol the store holds.
UsagesFound ==
    /\ lastOp.op = "findUsages"
    /\ fu.pc = "done"
    /\ Truthy(fu.input.symbol)
    /\ Resolved # <<>>

\* The file of the symbol the call resolved.
DefiningFile == Resolved[1].file

DefinitionRecords == SelectSeq(fu.result.usages, LAMBDA u : u.isDefinition)

References == SelectSeq(fu.result.usages, LAMBDA u : ~u.isDefinition)

\* The lines of the defining file that one of the patterns matches.
DefinitionLines ==
    {l \in 1..Len(ReadLines(DefiningFile)) :
        DefinitionMatch(ReadLines(DefiningFile)[l], fu.input.symbol) >= 0}

\* C23: findUsages reports at most one record with isDefinition = true, and
\* it is for the first line of the defining file that a pattern matches,
\* also when that is the first line of the file.
C23_OneDefinition ==
    UsagesFound =>
        /\ Len(DefinitionRecords) <= 1
        /\ \A i \in 1..Len(DefinitionRecords) :
              /\ DefinitionRecords[i].line \in DefinitionLines
              /\ \A l \in DefinitionLines : DefinitionRecords[i].line <= l

\* The matches the reference scan met, in its order.
Scanned ==
    ScanMatches(FoundFiles(FilePatterns), DefiningFile, fu.input.symbol,
                fu.input.includeDefinition)

\* The matches left in the line where the cap was hit, the one that hit it
\* included.
LeftInCapLine ==
    LET at == Len(References) + 1
    IN  Cardinality({j \in at..Len(Scanned) :
                        /\ Scanned[j].file = Scanned[at].file
                        /\ Scanned[j].line = Scanned[at].line})

\* C24: totalFound is never below the number of usages and equals it when
\* limitReached is false; when the cap is hit the scan halts at that match
\* and totalFound is one more than the number of usages, whatever the line
\* still holds.
C24_CountStopsAtCap ==
    UsagesFound =>
        /\ fu.result.totalFound >= Len(fu.result.usages)
        /\ ~fu.result.limitReached =>
              fu.result.totalFound = Len(fu.result.usages)
        /\ fu.result.limitReached =>
              fu.result.totalFound = Len(fu.result.usages) + 1

\* C24 as stated: when the cap is hit the matches left in the line are
\* counted before the scan halts.
C24_CountsOnInLine ==
    UsagesFound =>
        /\ fu.result.totalFound >= Len(fu.result.usages)
        /\ ~fu.result.limitReached =>
              fu.result.totalFound = Len(fu.result.usages)
        /\ fu.result.limitReached =>
              fu.result.totalFound = Len(fu.result.usages) + LeftInCapLine

\* The cap was hit at a match with another match behind it in the line.
C24_Witness ==
    /\ UsagesFound
    /\ fu.result.limitReached
    /\ LeftInCapLine >= 2
    /\ fu.result.totalFound = Len(fu.result.usages) + 1

\* C25: the reference scan passes over the defining file only when the
\* definition step produced a record for it; with no definition record the
\* occurrences in the defining file are reported like any other.
C25_SkipOnlyCounted ==
    (UsagesFound /\ DefinitionRecords = <<>> /\ ~fu.result.limitReached
        /\ ExistsSync(DefiningFile)) =>
        \A i \in 1..Len(FileMatches(DefiningFile, fu.input.symbol)) :
            FileMatches(DefiningFile, fu.input.symbol)[i] \in Range(fu.result.usages)

\* The refresh of the call has gone through all its files and returned.
RefreshCompleted ==
    /\ rr.pc = "done"
    /\ ~rr.fullScan
    /\ rr.threwAt # "none" \/ rr.idx > Len(rr.filesToProcess)

\* C26: a findUsages call with a symbol name starts an incremental refresh
\* and resolves the symbol and reads files only after that refresh has
\* returned; a call without a symbol is answered with the empty result, no
\* refresh started and the registry left as it is.
C26_RefreshFirst ==
    [][/\ (fu.pc = "idle" /\ fu'.pc = "refresh") =>
             /\ Truthy(fu'.input.symbol)
             /\ rr.pc = "idle" /\ rr'.pc # "idle" /\ ~rr'.fullScan
       /\ (fu.pc # "done" /\ fu'.pc = "done" /\ Truthy(fu'.input.symbol)) =>
             /\ fu.pc = "refresh"
             /\ RefreshCompleted
       /\ (fu.pc = "idle" /\ fu'.pc = "done") =>
             /\ ~Truthy(fu'.input.symbol)
             /\ fu'.result.usages = <<>> /\ fu'.result.totalFound = 0
             /\ ~fu'.result.limitReached
             /\ UNCHANGED <<symbols, files, lastFullRefresh, persisted, rr>>]_vars

\* The refresh of a findUsages call has gone through a stale file and
\* returned; the call has not looked at the store yet.
C26_Witness ==
    /\ fu.pc = "refresh"
    /\ Truthy(fu.input.symbol)
    /\ RefreshCompleted
    /\ rr.parsed # {}
    /\ fu.result = <<>>

\* The store as a registration in progress has it: the symbols of the
\* document's file are not (yet) those the document yields.
Torn ==
    /\ rfs.pc = "inserting"
    /\ SelectSeq(symbols, LAMBDA s : s.file = rfs.fileDoc[1].filePath)
           # Derived(rfs.fileDoc[1])

\* The last thing that happened is a read of the store by a request.
Observed == lastOp.op \in {"search", "getAllSymbols", "findUsages"}

\* C30: under any interleaving of requests at await boundaries, no search,
\* getAllSymbols or usage lookup reads a store in which a registerFileSymbols
\* call has purged the file's old symbols and has not yet inserted all the
\* symbols of the new document.
C30_AtomicCycle == Observed => ~Torn

\* A registration stands between its purge and its first insertion, the
\* state file still holding the symbols it purged, while a usage lookup of
\* another request waits for its refresh.
C30_Witness ==
    /\ Torn
    /\ rfs.idx = 1
    /\ Len(rfs.list) = 2
    /\ persisted.kind = "state"
    /\ \E i \in 1..Len(persisted.symbols) :
          persisted.symbols[i].file = rfs.fileDoc[1].filePath
    /\ fu.pc = "refresh"

=============================================================================
